---- MODULE Spec2Model ----
(***************************************************************************)
(* Verification model of mcl-rs.                                           *)
(*                                                                         *)
(* Part I  : the lock-based cooperative task manager (src/src/tasks.rs):   *)
(*           Handle (RwLock<State> + Mutex<Option<Waker>>), Task::poll,    *)
(*           Manager (tokio Semaphore + JoinSet).                          *)
(* Part II : the rule engine (src/src/data/mojang.rs): Rules::is_allowed,  *)
(*           Rule::calculate_action.                                       *)
(*                                                                         *)
(* Part III: the file synchronisation task (src/src/files/io.rs):         *)
(*           SyncTask::is_valid, download, write_to_file and the task     *)
(*           body, run over a file system and a remote server.            *)
(*                                                                         *)
(* Part IV : the directory placer (src/src/dirs.rs): Dirs::locate and     *)
(*           build_path over PathBuf values.                               *)
(*                                                                         *)
(* Part V  : the sources a version document provides                      *)
(*           (src/src/data/imp.rs): Artifact::provides for VersionInfo.    *)
(*                                                                         *)
(* Part VI : the sources an asset index provides (src/src/data/imp.rs):    *)
(*           Artifact::provides for AssetIndex, Url::join.                 *)
(*                                                                         *)
(* Part VII: the sources a natives archive provides                        *)
(*           (src/src/data/imp.rs): Artifact::provides for ZippedNatives.  *)
(*                                                                         *)
(* Part VIII: build_library_path (src/src/util.rs).                        *)
(*                                                                         *)
(* Part IX : substitute_params (src/src/util.rs).                          *)
(*                                                                         *)
(* Part X  : the resolvers of the examples (src/examples/print.rs,         *)
(*           src/examples/save.rs) and their semaphore.                    *)
(*                                                                         *)
(* Part XI : the traversal driver (src/examples/save.rs): download, save.  *)
(*                                                                         *)
(* Part XII: the atomic-state task manager (src/api/src/tasks.rs): Handle  *)
(*           (AtomicCell<State> + Mutex<Option<Waker>>) and Task::poll,    *)
(*           step by step.                                                 *)
(*                                                                         *)
(* Every specification constrains all variables; the part a specification  *)
(* is not about stays in its initial value.                                *)
(***************************************************************************)
EXTENDS Integers, Sequences, FiniteSets, TLC

\* ------------------------------------------------------------------ bounds

\* Number of tasks the manager may spawn in one behaviour.
NumTasks == 2
\* Largest concurrency limit passed to Manager::with_limit.
MaxLimit == 1
\* Longest rule list handed to Rules::is_allowed.
MaxRules == 2
\* Number of sources one traversal synchronises.
NumSources == 2
\* Largest declared size, Content-Length and body length, in bytes.
MaxSize == 2
\* Number of traversals of the same sources in one behaviour.
MaxPasses == 2
\* Longest library list of a VersionInfo document.
MaxLibraries == 2
\* Largest number of entries of an asset index.
MaxObjects == 2
\* Largest number of entries of a natives archive.
MaxEntries == 3
\* Longest library name handed to build_library_path, in characters.
MaxNameLen == 7
\* Longest template handed to substitute_params, in characters.
MaxTemplateLen == 7
\* Number of resolve calls the traversal has in flight at once.
NumResolves == 3
\* Largest number of permits of the resolver's limiter.
MaxPermits == 2
\* Largest number of sources one traversal meets.
MaxNodes == 5
\* Largest number of sources one artifact provides.
MaxChildren == 2
\* Number of threads calling the operations of one Handle.
NumCallers == 2

Tasks == 1..NumTasks

\* ---------------------------------------------------------------- variables

VARIABLES
    \* --- Part I: task manager ---
    logLevel,    \* max level of the installed tracing subscriber
    hasLimit,    \* Manager.semaphore is Some
    limit,       \* permits the semaphore was built with
    permits,     \* Semaphore::available_permits
    semQueue,    \* FIFO of tasks waiting in acquire_owned()
    holds,       \* holds[t]: task t owns an OwnedSemaphorePermit
    stage,       \* position of the spawned async block of task t
    pc,          \* position inside Task::poll of task t
    notified,    \* the executor has a wake-up pending for task t
    state,       \* Inner.state (payload of Finished/Failed is innerResult)
    waker,       \* Inner.waker is Some
    lockHeld,    \* Inner.state is write-locked by the poll of task t
    poisoned,    \* Inner.state is poisoned (a writer panicked)
    innerArmed,  \* the inner future keeps a clone of the task waker
    innerResult, \* what the inner future returned when it became Ready
    joined,      \* tasks already handed out by JoinSet::join_next
    waitAll,     \* position of Manager::wait_all
    lastCall,    \* the Handle call the latest step made take effect, if any
    \* --- Part II: rule engine ---
    rules,       \* Rules.0
    features,    \* the caller's feature map (params)
    selector,    \* the caller's OsSelector
    verdict,     \* result of the latest Rules::is_allowed call
    \* --- Part III: file synchronisation ---
    validation,  \* SyncTask.validation of the task of source s
    size,        \* SyncTask.size
    ctype,       \* SyncTask.type
    fs,          \* the file at SyncTask.path: None or Some(content)
    parentDir,   \* the parent directory of SyncTask.path exists
    pass,        \* number of the traversal under way
    active,      \* the source whose task is running, 0 if none
    syncPc,      \* position of the running task inside its async block
    response,    \* the Response the running download received
    buf,         \* the bytes the running task holds
    isValid,     \* what is_valid returned to the task of s in this pass
    outcome,     \* Output of the task of s in this pass
    requests,    \* GET requests the task of s sent in this pass
    fsOps,       \* file system mutations the task of s made in this pass
    firstPassOk, \* every task of the first traversal returned Ok
    \* --- Part IV: directory placer ---
    dirs,        \* the Dirs value (five base directories)
    src,         \* the Source handed to Dirs::locate
    located,     \* what the call returned, or that it panicked
    \* --- Part V: provided sources ---
    versionInfo, \* the parsed VersionInfo document
    provided,    \* the sources provides() yielded, in order; None before
    \* --- Part VI: asset index ---
    assetIndex,  \* the parsed AssetIndex document
    assetConfig, \* the AssetIndexConfig handed to provides
    assetPc,     \* parsed, iterating (provides called) or exhausted
    assetSeen,   \* keys of objects the iterator has passed
    assetOut,    \* the sources the iterator yielded, in order
    \* --- Part VII: natives archive ---
    zipped,      \* the ZippedNatives artifact
    zipPc,       \* loaded, iterating (provides called) or exhausted
    zipIdx,      \* next index of the range 0..archive.len()
    zipOut,      \* the sources the iterator yielded, in order
    \* --- Part VIII: library paths ---
    libName,     \* argument name of build_library_path
    libHash,     \* argument hash, as it displays
    libClassifier, \* argument native_str
    libPath,     \* the String the call returned; None before
    \* --- Part IX: placeholder substitution ---
    substTemplate, \* argument template of substitute_params
    substParams, \* argument params
    substituted, \* the Cow the call returned; None before
    \* --- Part X: example resolvers ---
    resImpl,     \* which SimpleResolver: that of print.rs or of save.rs
    resLimit,    \* permits SimpleResolver.limiter was built with
    resPermits,  \* available permits of the limiter
    resInput,    \* the Source variant resolve call t was given
    resPc,       \* position of resolve call t
    resHolds,    \* resolve call t owns a SemaphorePermit
    \* --- Part XI: traversal driver ---
    travNodes,   \* the sources met so far, the root first
    travStack,   \* `stack` of download: results not yet popped
    travPc,      \* root, pop, drain, done or aborted
    \* --- Part XII: atomic-state task manager ---
    apiState,      \* Inner.state
    apiWaker,      \* Inner.waker holds Some(waker)
    apiResult,     \* Inner.result: "uninit" or "init"
    apiPollPc,     \* where Task::poll stands
    apiNotified,   \* the executor has the task scheduled for a poll
    apiRegistered, \* the inner future keeps a waker for its event
    apiLastPoll,   \* what the last poll of the task returned
    apiOp,         \* the handle operation each caller is in
    apiOpPc,       \* where that operation stands
    apiGot,        \* what the last result() returned
    apiHist        \* what has happened to the task so far

taskVars == <<logLevel, hasLimit, limit, permits, semQueue, holds, stage, pc,
              notified, state, waker, lockHeld, poisoned, innerArmed,
              innerResult, joined, waitAll, lastCall>>
ruleVars == <<rules, features, selector, verdict>>
ioVars == <<validation, size, ctype, fs, parentDir, pass, active, syncPc,
            response, buf, isValid, outcome, requests, fsOps, firstPassOk>>
dirVars == <<dirs, src, located>>
provVars == <<versionInfo, provided>>
assetVars == <<assetIndex, assetConfig, assetPc, assetSeen, assetOut>>
coreVars == <<taskVars, ruleVars, ioVars, dirVars, provVars>>
zipVars == <<zipped, zipPc, zipIdx, zipOut>>
libVars == <<libName, libHash, libClassifier, libPath>>
substVars == <<substTemplate, substParams, substituted>>
resolverVars == <<resImpl, resLimit, resPermits, resInput, resPc, resHolds>>
travVars == <<travNodes, travStack, travPc>>
apiVars == <<apiState, apiWaker, apiResult, apiPollPc, apiNotified,
             apiRegistered, apiLastPoll, apiOp, apiOpPc, apiGot, apiHist>>
extraVars == <<assetVars, zipVars, libVars, substVars, resolverVars,
              travVars, apiVars>>
vars == <<coreVars, extraVars>>

\* What the actions of one part leave alone.
outsideTasks == <<ruleVars, ioVars, dirVars, provVars, extraVars>>
outsideRules == <<taskVars, ioVars, dirVars, provVars, extraVars>>
outsideIo == <<taskVars, ruleVars, dirVars, provVars, extraVars>>
outsideDirs == <<taskVars, ruleVars, ioVars, provVars, extraVars>>
\* provides() reads the caller's features and selector of Part II.
outsideProvides == <<taskVars, rules, verdict, ioVars, dirVars, extraVars>>
outsideAsset == <<coreVars, zipVars, libVars, substVars, resolverVars,
        travVars, apiVars>>
outsideZip == <<coreVars, assetVars, libVars, substVars, resolverVars,
        travVars, apiVars>>
outsideLibPath == <<coreVars, assetVars, zipVars, substVars, resolverVars,
        travVars, apiVars>>
outsideSubst == <<coreVars, assetVars, zipVars, libVars, resolverVars,
        travVars, apiVars>>
outsideResolver == <<coreVars, assetVars, zipVars, libVars, substVars,
        travVars, apiVars>>
outsideTrav == <<coreVars, assetVars, zipVars, libVars, substVars,
        resolverVars, apiVars>>
outsideApi == <<coreVars, assetVars, zipVars, libVars, substVars,
        resolverVars, travVars>>


\* ======================================================================
\* Part I: the lock-based task manager (src/src/tasks.rs)
\* ======================================================================

\* enum State<V, E>; the payloads of Finished(V) and Failed(E) are kept in
\* innerResult.
States == {"Pending", "Running", "Paused", "Cancelled", "Finished", "Failed"}
Terminal == {"Cancelled", "Finished", "Failed"}

\* Maximum level of the tracing subscriber the embedding program installed
\* (none installed: OFF; tracing_subscriber::fmt::init(): INFO).
LogLevels == {"OFF", "WARN", "INFO", "TRACE"}
LevelRank == [l \in LogLevels |-> CASE l = "OFF" -> 0 [] l = "WARN" -> 1
                                    [] l = "INFO" -> 2 [] OTHER -> 3]

\* A tracing macro evaluates its fields only when its level is enabled.
LogEnabled(level) == LevelRank[level] <= LevelRank[logLevel]

NoCall == [op |-> "none", task |-> 0, pre |-> "none", wk |-> FALSE]
CallRec(o, t) == [op |-> o, task |-> t, pre |-> state[t], wk |-> waker[t]]

created == {t \in Tasks : stage[t] # "none"}

\* Manager::tasks(): JoinSet::len(), the tasks not yet joined.
tasks == Cardinality(created \ joined)

TaskInit ==
    /\ logLevel \in LogLevels
    /\ hasLimit \in BOOLEAN
    /\ limit \in (IF hasLimit THEN 0..MaxLimit ELSE {0})
    /\ permits = limit
    /\ semQueue = <<>>
    /\ holds = [t \in Tasks |-> FALSE]
    /\ stage = [t \in Tasks |-> "none"]
    /\ pc = [t \in Tasks |-> "idle"]
    /\ notified = [t \in Tasks |-> FALSE]
    /\ state = [t \in Tasks |-> "Pending"]
    /\ waker = [t \in Tasks |-> FALSE]
    /\ lockHeld = [t \in Tasks |-> FALSE]
    /\ poisoned = [t \in Tasks |-> FALSE]
    /\ innerArmed = [t \in Tasks |-> FALSE]
    /\ innerResult = [t \in Tasks |-> "none"]
    /\ joined = {}
    /\ waitAll = "idle"
    /\ lastCall = NoCall

\* ---------------------------------------------------------------- Manager

\* Manager::new_task: a handle in state Pending with no waker, spawned on
\* the JoinSet (tokio schedules a spawned task for its first poll).  It
\* borrows the manager mutably, so it cannot overlap wait_all.
NewTask(t) ==
    /\ stage[t] = "none"
    /\ \A u \in Tasks : u < t => stage[u] # "none"
    /\ waitAll # "waiting"
    /\ stage' = [stage EXCEPT ![t] = "new"]
    /\ notified' = [notified EXCEPT ![t] = TRUE]
    /\ waitAll' = "idle"
    /\ lastCall' = NoCall
    /\ UNCHANGED outsideTasks
    /\ UNCHANGED <<logLevel, hasLimit, limit, permits, semQueue, holds, pc,
                   state, waker, lockHeld, poisoned, innerArmed, innerResult,
                   joined>>

\* Fault variant of DropPermit: the permit is leaked when the future ends.
DropPermitLeaked(t) == UNCHANGED <<holds, permits, semQueue, notified>>

\* Dropping the OwnedSemaphorePermit of task t: tokio hands a released
\* permit to the first queued waiter and wakes it, otherwise returns it to
\* the semaphore.
DropPermit(t) ==
    IF hasLimit /\ holds[t]
    THEN IF semQueue # <<>>
         THEN /\ holds' = [holds EXCEPT ![t] = FALSE, ![Head(semQueue)] = TRUE]
              /\ notified' = [notified EXCEPT ![Head(semQueue)] = TRUE]
              /\ semQueue' = Tail(semQueue)
              /\ UNCHANGED permits
         ELSE /\ holds' = [holds EXCEPT ![t] = FALSE]
              /\ permits' = permits + 1
              /\ UNCHANGED <<semQueue, notified>>
    ELSE UNCHANGED <<holds, permits, semQueue, notified>>

\* First poll of the spawned async block: acquire_owned().await, then
\* task.await in the same poll when a permit is at hand.
FirstPoll(t) ==
    /\ stage[t] = "new" /\ notified[t] /\ pc[t] = "idle"
    /\ lastCall' = NoCall
    /\ UNCHANGED outsideTasks
    /\ IF ~hasLimit
       THEN /\ stage' = [stage EXCEPT ![t] = "task"]
            /\ pc' = [pc EXCEPT ![t] = "lock"]
            /\ notified' = [notified EXCEPT ![t] = FALSE]
            /\ UNCHANGED <<permits, semQueue, holds>>
       ELSE IF permits > 0
       THEN /\ permits' = permits - 1
            /\ holds' = [holds EXCEPT ![t] = TRUE]
            /\ stage' = [stage EXCEPT ![t] = "task"]
            /\ pc' = [pc EXCEPT ![t] = "lock"]
            /\ notified' = [notified EXCEPT ![t] = FALSE]
            /\ UNCHANGED semQueue
       ELSE /\ semQueue' = Append(semQueue, t)
            /\ stage' = [stage EXCEPT ![t] = "queued"]
            /\ notified' = [notified EXCEPT ![t] = FALSE]
            /\ UNCHANGED <<permits, holds, pc>>
    /\ UNCHANGED <<logLevel, hasLimit, limit, state, waker, lockHeld,
                   poisoned, innerArmed, innerResult, joined, waitAll>>

\* A queued acquire_owned() woken with its permit assigned: the block goes
\* on to task.await.
PollQueued(t) ==
    /\ stage[t] = "queued" /\ notified[t] /\ holds[t] /\ pc[t] = "idle"
    /\ stage' = [stage EXCEPT ![t] = "task"]
    /\ pc' = [pc EXCEPT ![t] = "lock"]
    /\ notified' = [notified EXCEPT ![t] = FALSE]
    /\ lastCall' = NoCall
    /\ UNCHANGED outsideTasks
    /\ UNCHANGED <<logLevel, hasLimit, limit, permits, semQueue, holds,
                   state, waker, lockHeld, poisoned, innerArmed, innerResult,
                   joined, waitAll>>

\* The executor polls a woken task: Task::poll is entered.
PollTask(t) ==
    /\ stage[t] = "task" /\ notified[t] /\ pc[t] = "idle"
    /\ pc' = [pc EXCEPT ![t] = "lock"]
    /\ notified' = [notified EXCEPT ![t] = FALSE]
    /\ lastCall' = NoCall
    /\ UNCHANGED outsideTasks
    /\ UNCHANGED <<logLevel, hasLimit, limit, permits, semQueue, holds,
                   stage, state, waker, lockHeld, poisoned, innerArmed,
                   innerResult, joined, waitAll>>

\* ------------------------------------------------------------- Task::poll

\* `let mut state = this.handle.state_mut();` at the head of the loop.
LockState(t) ==
    /\ pc[t] = "lock" /\ ~lockHeld[t]
    /\ lockHeld' = [lockHeld EXCEPT ![t] = TRUE]
    /\ pc' = [pc EXCEPT ![t] = "arm"]
    /\ lastCall' = NoCall
    /\ UNCHANGED outsideTasks
    /\ UNCHANGED <<logLevel, hasLimit, limit, permits, semQueue, holds,
                   stage, notified, state, waker, poisoned, innerArmed,
                   innerResult, joined, waitAll>>

\* The polling thread asks for the state lock (Handle::state, through Debug
\* for Handle or through the handle the inner future owns) while it holds
\* the write guard.  std::sync::RwLock documents that this "might panic or
\* deadlock"; both outcomes exist in shipped implementations.
\* Outcome 1: the thread sleeps forever, guard and permit are never dropped.
RelockBlocks(t) ==
    /\ stage' = [stage EXCEPT ![t] = "blocked"]
    /\ pc' = [pc EXCEPT ![t] = "stuck"]
    /\ lastCall' = NoCall
    /\ UNCHANGED outsideTasks
    /\ UNCHANGED <<logLevel, hasLimit, limit, permits, semQueue, holds,
                   notified, state, waker, lockHeld, poisoned, innerArmed,
                   innerResult, joined, waitAll>>

\* Outcome 2: the call panics.  Unwinding drops the write guard (which
\* poisons the lock), tokio catches the panic and drops the future (which
\* drops the permit), and the JoinSet sees the task as completed with a
\* JoinError.
RelockPanics(t) ==
    /\ stage' = [stage EXCEPT ![t] = "panicked"]
    /\ pc' = [pc EXCEPT ![t] = "idle"]
    /\ lockHeld' = [lockHeld EXCEPT ![t] = FALSE]
    /\ poisoned' = [poisoned EXCEPT ![t] = TRUE]
    /\ innerArmed' = [innerArmed EXCEPT ![t] = FALSE]
    /\ DropPermit(t)
    /\ lastCall' = NoCall
    /\ UNCHANGED outsideTasks
    /\ UNCHANGED <<logLevel, hasLimit, limit, state, waker, innerResult,
                   joined, waitAll>>

Relock(t) == RelockBlocks(t) \/ RelockPanics(t)

\* State::Pending arm: trace!(?this.handle), *state = Running, continue
\* (the guard is dropped and taken again by the next iteration).
PendingArm(t) ==
    /\ pc[t] = "arm" /\ state[t] = "Pending"
    /\ IF LogEnabled("TRACE")
       THEN Relock(t)
       ELSE /\ state' = [state EXCEPT ![t] = "Running"]
            /\ lockHeld' = [lockHeld EXCEPT ![t] = FALSE]
            /\ pc' = [pc EXCEPT ![t] = "lock"]
            /\ lastCall' = NoCall
            /\ UNCHANGED outsideTasks
            /\ UNCHANGED <<logLevel, hasLimit, limit, permits, semQueue,
                           holds, stage, notified, waker, poisoned,
                           innerArmed, innerResult, joined, waitAll>>

\* State::Running arm, up to the poll of the inner future.
RunningArm(t) ==
    /\ pc[t] = "arm" /\ state[t] = "Running"
    /\ IF LogEnabled("TRACE")
       THEN Relock(t)
       ELSE /\ pc' = [pc EXCEPT ![t] = "inner"]
            /\ lastCall' = NoCall
            /\ UNCHANGED outsideTasks
            /\ UNCHANGED <<logLevel, hasLimit, limit, permits, semQueue,
                           holds, stage, notified, state, waker, lockHeld,
                           poisoned, innerArmed, innerResult, joined,
                           waitAll>>

\* Fault variant of ResultState: every Ready result is stored as Finished.
ResultStateAlwaysFinished(res) == "Finished"

\* The state a Ready result of the inner future is stored as.
ResultState(res) == IF res = "Ok" THEN "Finished" ELSE "Failed"

\* fut.poll(cx) returned Poll::Ready(res): the result is stored, continue.
InnerReady(t, res) ==
    /\ pc[t] = "inner"
    /\ state' = [state EXCEPT ![t] = ResultState(res)]
    /\ innerResult' = [innerResult EXCEPT ![t] = res]
    /\ innerArmed' = [innerArmed EXCEPT ![t] = FALSE]
    /\ lockHeld' = [lockHeld EXCEPT ![t] = FALSE]
    /\ pc' = [pc EXCEPT ![t] = "lock"]
    /\ lastCall' = NoCall
    /\ UNCHANGED outsideTasks
    /\ UNCHANGED <<logLevel, hasLimit, limit, permits, semQueue, holds,
                   stage, notified, waker, poisoned, joined, waitAll>>

\* fut.poll(cx) returned Poll::Pending: the inner future kept a clone of
\* the waker, the task stashes another and returns Poll::Pending.
InnerPending(t) ==
    /\ pc[t] = "inner"
    /\ innerArmed' = [innerArmed EXCEPT ![t] = TRUE]
    /\ waker' = [waker EXCEPT ![t] = TRUE]
    /\ lockHeld' = [lockHeld EXCEPT ![t] = FALSE]
    /\ pc' = [pc EXCEPT ![t] = "idle"]
    /\ lastCall' = NoCall
    /\ UNCHANGED outsideTasks
    /\ UNCHANGED <<logLevel, hasLimit, limit, permits, semQueue, holds,
                   stage, notified, state, poisoned, innerResult, joined,
                   waitAll>>

\* During fut.poll(cx) the inner future uses the handle new_task gave to
\* its generator (state(), pause(), resume() or cancel()): the lock it asks
\* for is write-held by its own thread.
InnerCallsHandle(t) ==
    /\ pc[t] = "inner"
    /\ Relock(t)

\* Fault variant of PausedArm: Pending is returned without stashing the
\* waker.
PausedArmNoStash(t) ==
    /\ pc[t] = "arm" /\ state[t] = "Paused"
    /\ lockHeld' = [lockHeld EXCEPT ![t] = FALSE]
    /\ pc' = [pc EXCEPT ![t] = "idle"]
    /\ lastCall' = NoCall
    /\ UNCHANGED outsideTasks
    /\ UNCHANGED <<logLevel, hasLimit, limit, permits, semQueue, holds,
                   stage, notified, state, waker, poisoned, innerArmed,
                   innerResult, joined, waitAll>>

\* State::Paused arm: trace!(?this.handle), stash the waker, return Pending.
PausedArm(t) ==
    /\ pc[t] = "arm" /\ state[t] = "Paused"
    /\ IF LogEnabled("TRACE")
       THEN Relock(t)
       ELSE /\ waker' = [waker EXCEPT ![t] = TRUE]
            /\ lockHeld' = [lockHeld EXCEPT ![t] = FALSE]
            /\ pc' = [pc EXCEPT ![t] = "idle"]
            /\ lastCall' = NoCall
            /\ UNCHANGED outsideTasks
            /\ UNCHANGED <<logLevel, hasLimit, limit, permits, semQueue,
                           holds, stage, notified, state, poisoned,
                           innerArmed, innerResult, joined, waitAll>>

\* Task::poll returns Poll::Ready(()): the async block ends, `_permit` and
\* the task (with its inner future) are dropped.
Resolve(t) ==
    /\ stage' = [stage EXCEPT ![t] = "done"]
    /\ pc' = [pc EXCEPT ![t] = "idle"]
    /\ lockHeld' = [lockHeld EXCEPT ![t] = FALSE]
    /\ innerArmed' = [innerArmed EXCEPT ![t] = FALSE]
    /\ DropPermit(t)
    /\ lastCall' = NoCall
    /\ UNCHANGED outsideTasks
    /\ UNCHANGED <<logLevel, hasLimit, limit, state, waker, poisoned,
                   innerResult, joined, waitAll>>

\* State::Cancelled arm: warn!(?this.handle), return Ready.
CancelledArm(t) ==
    /\ pc[t] = "arm" /\ state[t] = "Cancelled"
    /\ IF LogEnabled("WARN") THEN Relock(t) ELSE Resolve(t)

\* State::Finished arm: info!(?this.handle), return Ready.
FinishedArm(t) ==
    /\ pc[t] = "arm" /\ state[t] = "Finished"
    /\ IF LogEnabled("INFO") THEN Relock(t) ELSE Resolve(t)

\* State::Failed arm: warn!("finished with failure") logs no handle.
FailedArm(t) ==
    /\ pc[t] = "arm" /\ state[t] = "Failed"
    /\ Resolve(t)

\* The event the inner future waits for fires: its waker clone is woken.
InnerWake(t) ==
    /\ stage[t] = "task" /\ innerArmed[t]
    /\ innerArmed' = [innerArmed EXCEPT ![t] = FALSE]
    /\ notified' = [notified EXCEPT ![t] = TRUE]
    /\ lastCall' = NoCall
    /\ UNCHANGED outsideTasks
    /\ UNCHANGED <<logLevel, hasLimit, limit, permits, semQueue, holds,
                   stage, pc, state, waker, lockHeld, poisoned, innerResult,
                   joined, waitAll>>


\* ----------------------------------------------------------------- Handle

\* Fault variant of CanPause: a task that has not started can be paused.
CanPauseUnstarted(s) == s \in {"Pending", "Running"}

\* The matches!() guards of pause, resume and cancel.
CanPause(s) == s = "Running"
CanResume(s) == s = "Paused"
CanCancel(s) == s \in {"Running", "Paused"}

\* `if let Some(waker) = self.waker().take() { waker.wake(); }`
WakeStashed(t) ==
    /\ waker' = [waker EXCEPT ![t] = FALSE]
    /\ notified' = IF waker[t] THEN [notified EXCEPT ![t] = TRUE] ELSE notified

\* Fault variant of HandleCall: the state is checked and stored without
\* waiting for the write guard a poll in progress owns.
HandleCallNoLock(op, t, permitted, target) ==
    /\ stage[t] # "none" /\ ~poisoned[t]
    /\ UNCHANGED outsideTasks
    /\ IF permitted
       THEN /\ state' = [state EXCEPT ![t] = target]
            /\ waker' = [waker EXCEPT ![t] = FALSE]
            /\ notified' = IF waker[t] THEN [notified EXCEPT ![t] = TRUE]
                           ELSE notified
            /\ lastCall' = [op |-> op, task |-> t, pre |-> state[t],
                            wk |-> waker[t]]
       ELSE UNCHANGED <<state, waker, notified, lastCall>>
    /\ UNCHANGED <<logLevel, hasLimit, limit, permits, semQueue, holds,
                   stage, pc, lockHeld, poisoned, innerArmed, innerResult,
                   joined, waitAll>>

\* A control call on the handle of task t, from any thread that does not
\* hold the state lock: state_mut() waits while a poll of t owns the write
\* guard (and panics on a poisoned lock, changing nothing); the check, the
\* store and the wake-up are done under the guard.  A call whose matches!()
\* fails changes nothing at all; a call that takes effect is recorded in
\* lastCall.
HandleCall(op, t, permitted, target) ==
    /\ stage[t] # "none" /\ ~lockHeld[t] /\ ~poisoned[t]
    /\ UNCHANGED outsideTasks
    /\ IF permitted
       THEN /\ state' = [state EXCEPT ![t] = target]
            /\ WakeStashed(t)
            /\ lastCall' = CallRec(op, t)
       ELSE UNCHANGED <<state, waker, notified, lastCall>>
    /\ UNCHANGED <<logLevel, hasLimit, limit, permits, semQueue, holds,
                   stage, pc, lockHeld, poisoned, innerArmed, innerResult,
                   joined, waitAll>>

Pause(t) == HandleCall("pause", t, CanPause(state[t]), "Paused")

Resume(t) == HandleCall("resume", t, CanResume(state[t]), "Running")

Cancel(t) == HandleCall("cancel", t, CanCancel(state[t]), "Cancelled")

\* ------------------------------------------------------ Manager::wait_all

WaitAllStart ==
    /\ waitAll = "idle"
    /\ waitAll' = "waiting"
    /\ lastCall' = NoCall
    /\ UNCHANGED outsideTasks
    /\ UNCHANGED <<logLevel, hasLimit, limit, permits, semQueue, holds,
                   stage, pc, notified, state, waker, lockHeld, poisoned,
                   innerArmed, innerResult, joined>>

\* join_next() yields a task whose future resolved or panicked (Some(Ok) or
\* Some(Err(JoinError)): the loop only tests is_some()).
JoinNext(t) ==
    /\ waitAll = "waiting"
    /\ t \in created \ joined
    /\ stage[t] \in {"done", "panicked"}
    /\ joined' = joined \cup {t}
    /\ lastCall' = NoCall
    /\ UNCHANGED outsideTasks
    /\ UNCHANGED <<logLevel, hasLimit, limit, permits, semQueue, holds,
                   stage, pc, notified, state, waker, lockHeld, poisoned,
                   innerArmed, innerResult, waitAll>>

\* join_next() yields None on an empty JoinSet: wait_all returns.
WaitAllReturn ==
    /\ waitAll = "waiting"
    /\ created \ joined = {}
    /\ waitAll' = "returned"
    /\ lastCall' = NoCall
    /\ UNCHANGED outsideTasks
    /\ UNCHANGED <<logLevel, hasLimit, limit, permits, semQueue, holds,
                   stage, pc, notified, state, waker, lockHeld, poisoned,
                   innerArmed, innerResult, joined>>

\* ------------------------------------------------------------ next-state

\* The steps the executor takes for task t.
ExecStep(t) ==
    \/ FirstPoll(t)
    \/ PollQueued(t)
    \/ PollTask(t)
    \/ LockState(t)
    \/ PendingArm(t)
    \/ RunningArm(t)
    \/ \E res \in {"Ok", "Err"} : InnerReady(t, res)
    \/ InnerPending(t)
    \/ InnerCallsHandle(t)
    \/ PausedArm(t)
    \/ CancelledArm(t)
    \/ FinishedArm(t)
    \/ FailedArm(t)

TaskNext ==
    \/ \E t \in Tasks : NewTask(t)
    \/ \E t \in Tasks : ExecStep(t)
    \/ \E t \in Tasks : InnerWake(t)
    \/ \E t \in Tasks : Pause(t)
    \/ \E t \in Tasks : Resume(t)
    \/ \E t \in Tasks : Cancel(t)
    \/ WaitAllStart
    \/ \E t \in Tasks : JoinNext(t)
    \/ WaitAllReturn


\* ======================================================================
\* Part II: the rule engine (src/src/data/mojang.rs)
\* ======================================================================

\* Option<T>: None is the empty sequence, Some(x) the one-element sequence.
None == <<>>
Some(x) == <<x>>

\* bitflags OsSelector: a value is the set of the flags set in it.
Linux32 == {"Linux32"}
Linux64 == {"Linux64"}
Windows32 == {"Windows32"}
Windows64 == {"Windows64"}
Windows10_32 == {"Windows10_32"}
Windows10_64 == {"Windows10_64"}
OSX32 == {"OSX32"}
OSX64 == {"OSX64"}
MacOS32 == {"MacOS32"}
MacOS64 == {"MacOS64"}

\* OsSelector::all()
AllOs == Linux32 \cup Linux64 \cup Windows32 \cup Windows64 \cup Windows10_32
         \cup Windows10_64 \cup OSX32 \cup OSX64 \cup MacOS32 \cup MacOS64

\* OsSelector::intersects
Intersects(a, b) == a \cap b # {}

\* str::starts_with on strings kept as sequences of characters.
StartsWith(str, prefix) ==
    /\ Len(str) >= Len(prefix)
    /\ SubSeq(str, 1, Len(prefix)) = prefix

Caret10 == <<"^", "1", "0">>

\* Some(version) if version.starts_with("^10")
IsVersion10(version) == version # None /\ StartsWith(version[1], Caret10)

\* Fault variant of MatchedOs: the architecture of a linux rule is ignored.
MatchedOsNoArch(os) ==
    CASE os.name = Some("linux") -> Linux64 \cup Linux32
      [] os.name = Some("windows") /\ IsVersion10(os.version) ->
            Windows10_64 \cup Windows10_32
      [] os.name = Some("windows") ->
            Windows64 \cup Windows32 \cup Windows10_64 \cup Windows10_32
      [] os.name = Some("osx") /\ IsVersion10(os.version) -> OSX64 \cup OSX32
      [] os.name = Some("osx") ->
            MacOS64 \cup MacOS32 \cup OSX64 \cup OSX32
      [] OTHER -> AllOs

\* The `allowed` selector of Rule::calculate_action: the arms of the match
\* on (os.name, os.arch, os.version), in source order.
MatchedOs(os) ==
    CASE os.name = Some("linux") /\ os.arch = Some("x86") -> Linux32
      [] os.name = Some("linux") -> Linux64 \cup Linux32
      [] os.name = Some("windows") /\ os.arch = Some("x86")
            /\ IsVersion10(os.version) -> Windows10_32
      [] os.name = Some("windows") /\ IsVersion10(os.version) ->
            Windows10_64 \cup Windows10_32
      [] os.name = Some("windows") /\ os.arch = Some("x86") ->
            Windows32 \cup Windows10_32
      [] os.name = Some("windows") ->
            Windows64 \cup Windows32 \cup Windows10_64 \cup Windows10_32
      [] os.name = Some("osx") /\ os.arch = Some("x86")
            /\ IsVersion10(os.version) -> OSX32
      [] os.name = Some("osx") /\ IsVersion10(os.version) -> OSX64 \cup OSX32
      [] os.name = Some("osx") /\ os.arch = Some("x86") -> MacOS32 \cup OSX32
      [] os.name = Some("osx") ->
            MacOS64 \cup MacOS32 \cup OSX64 \cup OSX32
      [] OTHER -> AllOs

\* RuleAction::invert
Invert(action) == IF action = "Allow" THEN "Disallow" ELSE "Allow"

\* RuleAction::value
Value(action) == action = "Allow"

\* Fault variant of GetOrFalse: a key absent from the map counts as true.
GetOrTrue(params, k) == IF k \in DOMAIN params THEN params[k] ELSE TRUE

\* params.get(k).unwrap_or(&false)
GetOrFalse(params, k) == IF k \in DOMAIN params THEN params[k] ELSE FALSE

\* `for (k, v) in &self.features { if params.get(k).unwrap_or(&false) != v
\* { return ... } }`: the map is walked entry by entry (in the arbitrary
\* order of the HashMap) and left at the first entry that disagrees.
RECURSIVE FeatureMismatch(_, _, _)
FeatureMismatch(feats, todo, params) ==
    IF todo = {} THEN FALSE
    ELSE LET k == CHOOSE x \in todo : TRUE
         IN  IF GetOrFalse(params, k) # feats[k] THEN TRUE
             ELSE FeatureMismatch(feats, todo \ {k}, params)

\* Rule::calculate_action
CalculateAction(rule, params, os_selector) ==
    IF ~Intersects(os_selector, MatchedOs(rule.os))
    THEN Invert(rule.action)
    ELSE IF FeatureMismatch(rule.features, DOMAIN rule.features, params)
         THEN Invert(rule.action)
         ELSE rule.action

\* Rule::is_allowed
RuleIsAllowed(rule, params, os) == Value(CalculateAction(rule, params, os))

\* Iterator::any over the rule list with the closure of Rules::is_allowed:
\* stops at the first rule that is not allowed.
RECURSIVE AnyNotAllowed(_, _, _)
AnyNotAllowed(rs, params, os_selector) ==
    IF rs = <<>> THEN FALSE
    ELSE IF ~RuleIsAllowed(Head(rs), params, os_selector) THEN TRUE
         ELSE AnyNotAllowed(Tail(rs), params, os_selector)

\* Rules::is_allowed
RulesIsAllowed(rs, params, os_selector) ==
    ~AnyNotAllowed(rs, params, os_selector)

\* ------------------------------------------------------- bounded inputs

FeatureKeys == {"is_demo", "has_custom_resolution"}

\* Every map from some of the feature keys to a boolean.
FeatureMaps == UNION {[ks -> BOOLEAN] : ks \in SUBSET FeatureKeys}

\* OS descriptions the rule lists are drawn from.
OsSample == {
    [name |-> None, arch |-> None, version |-> None],
    [name |-> Some("linux"), arch |-> None, version |-> None],
    [name |-> Some("osx"), arch |-> Some("x86"),
     version |-> Some(<<"^", "1", "0", "\\", ".">>)] }

\* Feature maps the rules of the lists carry.
RuleFeatureSample == {f \in FeatureMaps :
    \/ DOMAIN f = {}
    \/ DOMAIN f = {"has_custom_resolution"}
    \/ DOMAIN f = FeatureKeys /\ f["is_demo"] /\ ~f["has_custom_resolution"]}

RuleSample == [action : {"Allow", "Disallow"}, os : OsSample,
               features : RuleFeatureSample]

\* Selectors of the caller.
SelectorSample == {{}, Linux64, Linux32, OSX32 \cup OSX64, MacOS64, AllOs}

RuleInit ==
    /\ rules = <<>>
    /\ features \in FeatureMaps
    /\ selector \in SelectorSample
    /\ verdict = "none"

\* A rule is deserialised into the list.
PushRule(r) ==
    /\ Len(rules) < MaxRules
    /\ rules' = Append(rules, r)
    /\ verdict' = "none"
    /\ UNCHANGED <<features, selector>>
    /\ UNCHANGED outsideRules

\* Rules::is_allowed(&features, selector) is called.
Evaluate ==
    /\ verdict = "none"
    /\ verdict' = IF RulesIsAllowed(rules, features, selector)
                  THEN "allowed" ELSE "disallowed"
    /\ UNCHANGED <<rules, features, selector>>
    /\ UNCHANGED outsideRules

RuleNext ==
    \/ \E r \in RuleSample : PushRule(r)
    \/ Evaluate

\* ------------------------------------------- one rule, every OS triple

\* os.name, os.arch and os.version values of the rules under test: the
\* names of the match arms and one the match does not know, the arch the
\* match looks for and another one, versions with and without the prefix.
OsNames == {None, Some("linux"), Some("windows"), Some("osx"),
            Some("freebsd")}
OsArchs == {None, Some("x86"), Some("x86_64")}
OsVersions == {None, Some(<<"^", "1", "0", "\\", ".">>), Some(Caret10),
               Some(<<"^", "1">>), Some(<<"1", "0", ".", "5">>)}

OsTriples == [name : OsNames, arch : OsArchs, version : OsVersions]

\* Every value of the bitflags type.
AllSelectors == SUBSET AllOs

MatchInit ==
    /\ rules = <<>>
    /\ features = <<>>
    /\ selector \in AllSelectors
    /\ verdict = "none"

\* A list holding the one rule r is deserialised and Rules::is_allowed is
\* called on it with the caller's selector.
EvaluateRule(r) ==
    /\ rules = <<>>
    /\ rules' = <<r>>
    /\ verdict' = IF RulesIsAllowed(<<r>>, features, selector)
                  THEN "allowed" ELSE "disallowed"
    /\ UNCHANGED <<features, selector>>
    /\ UNCHANGED outsideRules

\* The rules under test: either action on every OS triple, no features.
OsRules == [action : {"Allow", "Disallow"}, os : OsTriples,
            features : {<<>>}]

MatchNext == \E r \in OsRules : EvaluateRule(r)

\* ======================================================================
\* Part III: the file synchronisation task (src/src/files/io.rs)
\* ======================================================================

Sources == 1..NumSources

\* enum Validation
Validations == {"NoneAtAll", "Force", "Usual"}

\* ContentType values the tasks are built with: one the task body parses
\* and one it only stores.
ContentTypeSample == {"VersionInfo", "Asset"}

\* `if let ty @ (AssetIndex | VersionInfo | NativeLibrary) = handle.type`
IsParsed(ty) == ty \in {"AssetIndex", "VersionInfo", "NativeLibrary"}

\* File and body contents: their length and whether deserialize_json /
\* read_zip accepts them.
Bodies == [len : 1..MaxSize, parses : BOOLEAN]

\* Option<u64> of Source.size and of Response::content_length().
OptSizes == {None} \cup {Some(n) : n \in 1..MaxSize}

OptBodies == {None} \cup {Some(b) : b \in Bodies}

\* What the server answers: the Content-Length header, if any, and the
\* body it sends.
Responses == [content_length : OptSizes, body : Bodies]

IoInit ==
    /\ validation \in [Sources -> Validations]
    /\ size \in [Sources -> OptSizes]
    /\ ctype \in [Sources -> ContentTypeSample]
    /\ fs \in [Sources -> OptBodies]
    /\ parentDir = [s \in Sources |-> fs[s] # None]
    /\ pass = 1
    /\ active = 0
    /\ syncPc = "idle"
    /\ response = None
    /\ buf = None
    /\ isValid = [s \in Sources |-> "none"]
    /\ outcome = [s \in Sources |-> "none"]
    /\ requests = [s \in Sources |-> 0]
    /\ fsOps = [s \in Sources |-> {}]
    /\ firstPassOk = FALSE

\* The io::Error values a task returns, by what raised them: the size gate
\* of download, the network, deserialize_json / read_zip, the file system.
Errors == {"SizesMismatch", "Network", "Parse", "Io"}

\* The task of source s is spawned and polled for the first time.
StartTask(s) ==
    /\ active = 0 /\ outcome[s] = "none"
    /\ active' = s
    /\ syncPc' = "is_valid"
    /\ UNCHANGED <<validation, size, ctype, fs, parentDir, pass, response,
                   buf, isValid, outcome, requests, fsOps, firstPassOk>>
    /\ UNCHANGED outsideIo

\* The task body returns res (an early return through `?` included).
Return(s, res) ==
    /\ outcome' = [outcome EXCEPT ![s] = res]
    /\ active' = 0
    /\ syncPc' = "idle"
    /\ response' = None
    /\ buf' = None

\* Fault variant of IsValidUsual: the declared size is not compared.
IsValidUsualAnySize(file, sz) == file # None

\* The Validation::Usual arm of SyncTask::is_valid when fs::metadata
\* answers Ok or NotFound.
IsValidUsual(file, sz) ==
    IF file = None THEN FALSE
    ELSE IF sz = None THEN TRUE
    ELSE file[1].len = sz[1]

\* SyncTask::is_valid, Ok results.
IsValid(mode, file, sz) ==
    CASE mode = "NoneAtAll" -> TRUE
      [] mode = "Force" -> FALSE
      [] mode = "Usual" -> IsValidUsual(file, sz)

\* `let is_valid = handle.is_valid().await?` returns Ok; a valid source
\* that is not parsed makes the body return Ok(()) at once.
IsValidReturns(s) ==
    /\ active = s /\ syncPc = "is_valid"
    /\ LET v == IsValid(validation[s], fs[s], size[s])
       IN  /\ isValid' = [isValid EXCEPT ![s] =
                              IF v THEN "valid" ELSE "invalid"]
           /\ IF ~v
              THEN /\ syncPc' = "download"
                   /\ UNCHANGED <<outcome, active, response, buf>>
              ELSE IF IsParsed(ctype[s])
                   THEN /\ syncPc' = "read_local"
                        /\ UNCHANGED <<outcome, active, response, buf>>
                   ELSE Return(s, "Ok")
    /\ UNCHANGED <<validation, size, ctype, fs, parentDir, pass, requests,
                   fsOps, firstPassOk>>
    /\ UNCHANGED outsideIo

\* fs::metadata fails with an error other than NotFound (`Err(e) => Err(e)`).
IsValidFails(s) ==
    /\ active = s /\ syncPc = "is_valid"
    /\ validation[s] = "Usual"
    /\ Return(s, "Io")
    /\ UNCHANGED <<validation, size, ctype, fs, parentDir, pass, isValid,
                   requests, fsOps, firstPassOk>>
    /\ UNCHANGED outsideIo

\* deserialize_json / read_zip on the bytes the task holds.
Parse(bytes) == IF bytes.parses THEN "Ok" ELSE "Parse"

\* `handle.read_local().await?` followed by the match on the type.
ReadLocal(s) ==
    /\ active = s /\ syncPc = "read_local"
    /\ IF fs[s] = None
       THEN Return(s, "Io")
       ELSE Return(s, Parse(fs[s][1]))
    /\ UNCHANGED <<validation, size, ctype, fs, parentDir, pass, isValid,
                   requests, fsOps, firstPassOk>>
    /\ UNCHANGED outsideIo

\* Fault variant of SizesMismatch: the header is never compared.
SizesMismatchNever(sz, content_length) == FALSE

\* `(Some(source_len), Some(content_len)) if source_len != content_len`
SizesMismatch(sz, content_length) ==
    /\ sz # None /\ content_length # None
    /\ sz[1] # content_length[1]

\* download(): the GET request is sent and the response r arrives; the
\* size gate runs on its header.
SendRequest(s, r) ==
    /\ active = s /\ syncPc = "download"
    /\ requests' = [requests EXCEPT ![s] = @ + 1]
    /\ IF SizesMismatch(size[s], r.content_length)
       THEN Return(s, "SizesMismatch")
       ELSE /\ response' = Some(r)
            /\ syncPc' = "fetch"
            /\ UNCHANGED <<outcome, active, buf>>
    /\ UNCHANGED <<validation, size, ctype, fs, parentDir, pass, isValid,
                   fsOps, firstPassOk>>
    /\ UNCHANGED outsideIo

\* download(): the request is sent and send() returns an error.
SendFails(s) ==
    /\ active = s /\ syncPc = "download"
    /\ requests' = [requests EXCEPT ![s] = @ + 1]
    /\ Return(s, "Network")
    /\ UNCHANGED <<validation, size, ctype, fs, parentDir, pass, isValid,
                   fsOps, firstPassOk>>
    /\ UNCHANGED outsideIo

\* The `while let Some(chunk) = response.chunk().await?` loop run to its
\* end. The HTTP client frames a body by its Content-Length: it stops
\* reading after that many bytes and reports a body that ends earlier as
\* an error; without the header the body is whatever the server sent.
FetchBody(s) ==
    /\ active = s /\ syncPc = "fetch"
    /\ LET r == response[1]
           cl == r.content_length
       IN  IF cl # None /\ r.body.len < cl[1]
           THEN /\ Return(s, "Network")
           ELSE /\ buf' = IF cl # None /\ r.body.len > cl[1]
                          THEN Some([len |-> cl[1], parses |-> FALSE])
                          ELSE Some(r.body)
                /\ syncPc' = "write_to_file"
                /\ UNCHANGED <<outcome, active, response>>
    /\ UNCHANGED <<validation, size, ctype, fs, parentDir, pass, isValid,
                   requests, fsOps, firstPassOk>>
    /\ UNCHANGED outsideIo

\* response.chunk() returns an error (the connection breaks).
FetchFails(s) ==
    /\ active = s /\ syncPc = "fetch"
    /\ Return(s, "Network")
    /\ UNCHANGED <<validation, size, ctype, fs, parentDir, pass, isValid,
                   requests, fsOps, firstPassOk>>
    /\ UNCHANGED outsideIo

\* write_to_file succeeds: create_dir_all(parent), fs::write(path, buf);
\* the body then parses the bytes or returns Ok(()).
WriteToFile(s) ==
    /\ active = s /\ syncPc = "write_to_file"
    /\ parentDir' = [parentDir EXCEPT ![s] = TRUE]
    /\ fs' = [fs EXCEPT ![s] = buf]
    /\ fsOps' = [fsOps EXCEPT ![s] = @ \cup {"create_dir_all", "write"}]
    /\ IF IsParsed(ctype[s])
       THEN Return(s, Parse(buf[1]))
       ELSE Return(s, "Ok")
    /\ UNCHANGED <<validation, size, ctype, pass, isValid, requests,
                   firstPassOk>>
    /\ UNCHANGED outsideIo

\* write_to_file fails: in create_dir_all, or in fs::write before the
\* file is opened.
WriteToFileFails(s) ==
    /\ active = s /\ syncPc = "write_to_file"
    /\ \E dirMade \in BOOLEAN :
          /\ parentDir' = [parentDir EXCEPT ![s] = @ \/ dirMade]
          /\ fsOps' = [fsOps EXCEPT ![s] =
                          IF dirMade THEN @ \cup {"create_dir_all"} ELSE @]
    /\ Return(s, "Io")
    /\ UNCHANGED <<validation, size, ctype, fs, pass, isValid, requests,
                   firstPassOk>>
    /\ UNCHANGED outsideIo

\* Every task of the traversal has returned; the same sources are
\* traversed again with new tasks.
NextPass ==
    /\ active = 0 /\ pass < MaxPasses
    /\ \A s \in Sources : outcome[s] # "none"
    /\ pass' = pass + 1
    /\ firstPassOk' = IF pass = 1 THEN \A s \in Sources : outcome[s] = "Ok"
                      ELSE firstPassOk
    /\ isValid' = [s \in Sources |-> "none"]
    /\ outcome' = [s \in Sources |-> "none"]
    /\ requests' = [s \in Sources |-> 0]
    /\ fsOps' = [s \in Sources |-> {}]
    /\ UNCHANGED <<validation, size, ctype, fs, parentDir, active, syncPc,
                   response, buf>>
    /\ UNCHANGED outsideIo

IoNext ==
    \/ \E s \in Sources : StartTask(s)
    \/ \E s \in Sources : IsValidReturns(s)
    \/ \E s \in Sources : IsValidFails(s)
    \/ \E s \in Sources : ReadLocal(s)
    \/ \E s \in Sources, r \in Responses : SendRequest(s, r)
    \/ \E s \in Sources : SendFails(s)
    \/ \E s \in Sources : FetchBody(s)
    \/ \E s \in Sources : FetchFails(s)
    \/ \E s \in Sources : WriteToFile(s)
    \/ \E s \in Sources : WriteToFileFails(s)
    \/ NextPass

\* ======================================================================
\* Part IV: the directory placer (src/src/dirs.rs)
\* ======================================================================

\* A path (PathBuf, or a string used as one): whether it starts at the
\* root, and its components. A component is the sequence of the pieces its
\* text is made of, so that "1.7.10" + "_server" + ".jar" stays visible.
Rel(comps) == [abs |-> FALSE, comps |-> comps]
Abs(comps) == [abs |-> TRUE, comps |-> comps]

\* A one-piece component.
Comp(text) == <<text>>

\* PathBuf::push: an absolute argument replaces the path, a relative one
\* is appended component by component.
Push(path, p) ==
    IF p.abs THEN p
    ELSE [abs |-> path.abs, comps |-> path.comps \o p.comps]

\* path_buf.as_mut_os_string().push(suffix): the text is appended to the
\* last component; after a bare root it starts a component.
PushSuffix(path, suffix) ==
    IF path.comps = <<>>
    THEN [path EXCEPT !.comps = <<Comp(suffix)>>]
    ELSE [path EXCEPT !.comps[Len(path.comps)] = Append(@, suffix)]

\* Path::file_name is None for a path without components or ending in "..".
HasFileName(path) ==
    path.comps # <<>> /\ path.comps[Len(path.comps)] # Comp("..")

\* Position of the last "." piece after the first piece of a file name,
\* 0 if there is none.
LastDot(c) ==
    LET dots == {i \in 2..Len(c) : c[i] = "."}
    IN  IF dots = {} THEN 0 ELSE CHOOSE i \in dots : \A j \in dots : j <= i

\* Fault variant of AddExtension: PathBuf::set_extension, which replaces
\* the extension the file name already has.
SetExtension(path, extension) ==
    IF ~HasFileName(path) THEN path
    ELSE LET c == path.comps[Len(path.comps)]
             stem == IF LastDot(c) = 0 THEN c
                     ELSE SubSeq(c, 1, LastDot(c) - 1)
         IN  [path EXCEPT !.comps[Len(path.comps)] =
                              stem \o <<".", extension>>]

\* PathBuf::add_extension: appends "." and the extension to the file name;
\* does nothing when there is no file name.
AddExtension(path, extension) ==
    IF ~HasFileName(path) THEN path
    ELSE [path EXCEPT !.comps[Len(path.comps)] = @ \o <<".", extension>>]

\* paths.into_iter().for_each(|p| path_buf.push(p))
RECURSIVE PushAll(_, _)
PushAll(path, paths) ==
    IF paths = <<>> THEN path
    ELSE PushAll(Push(path, Head(paths)), Tail(paths))

\* fn build_path(path_buf, paths, suffix, extension)
build_path(path_buf, paths, suffix, extension) ==
    LET pushed == PushAll(path_buf, paths)
        suffixed == IF suffix # None THEN PushSuffix(pushed, suffix[1])
                    ELSE pushed
    IN  IF extension # None THEN AddExtension(suffixed, extension[1])
        ELSE suffixed

\* A string used as a one-component relative path.
Str(text) == Rel(<<Comp(text)>>)

\* The Source::Remote arm of Dirs::locate.
LocateRemote(d, s) ==
    LET name == s.name
        kind == s.kind
    IN  CASE kind.tag = "VersionManifest" ->
                build_path(d.root, <<name>>, None, Some("json"))
          [] kind.tag = "AssetIndex" ->
                build_path(d.assets, <<Str("indexes"), name>>, None,
                           Some("json"))
          [] kind.tag = "Asset" /\ ~kind.legacy ->
                build_path(d.assets, <<Str("objects"), name>>, None, None)
          [] kind.tag = "Asset" /\ kind.legacy ->
                build_path(d.assets, <<Str("legacy"), name>>, None, None)
          [] kind.tag = "Library" ->
                build_path(d.libraries, <<name>>, None, None)
          [] kind.tag = "ClientJar" ->
                build_path(d.versions, <<name, name>>, None, Some("jar"))
          [] kind.tag = "ServerJar" ->
                build_path(d.versions, <<name, name>>, Some("_server"),
                           Some("jar"))
          [] kind.tag = "VersionInfo" ->
                build_path(d.versions, <<name, name>>, None, Some("json"))
          [] kind.tag = "JvmInfo" ->
                build_path(d.runtime,
                           <<kind.jvm_mojang_name, kind.platform,
                             kind.jvm_mojang_name, name>>,
                           Some("_info"), Some("json"))
          [] kind.tag = "JvmFile" ->
                build_path(d.runtime,
                           <<kind.jvm_mojang_name, kind.platform,
                             kind.jvm_mojang_name, name>>,
                           None, None)

\* Results of a call of Dirs::locate.
NotCalled == [tag |-> "none"]
Returned(path) == [tag |-> "path", path |-> path]
Panicked == [tag |-> "panic"]

\* ZipArchive::name_for_index(index) with the unwrap_or of locate; index
\* counts from 0.
EntryName(archive, index) ==
    IF index < Len(archive) THEN archive[index + 1]
    ELSE Rel(<<<<"unnamed", ToString(index)>>>>)

\* Path::parent: None for a path without components.
Parent(path) ==
    IF path.comps = <<>> THEN None
    ELSE Some([path EXCEPT !.comps = SubSeq(@, 1, Len(@) - 1)])

\* Dirs::locate
Locate(d, s) ==
    IF s.tag = "Remote" THEN Returned(LocateRemote(d, s))
    ELSE IF s.zipped.source.tag # "Remote" THEN Panicked
    ELSE LET path == LocateRemote(d, s.zipped.source)
             name == EntryName(s.zipped.archive, s.index)
         IN  IF Parent(path) = None THEN Panicked
             ELSE Returned(Push(Parent(path)[1], name))

\* ------------------------------------------------------- bounded inputs

\* Dirs values: the relative layout under one directory, and the layout
\* directly under the file system root.
DirsSample == {
    [root |-> Rel(<<Comp("mc")>>),
     assets |-> Rel(<<Comp("mc"), Comp("assets")>>),
     libraries |-> Rel(<<Comp("mc"), Comp("libraries")>>),
     versions |-> Rel(<<Comp("mc"), Comp("versions")>>),
     runtime |-> Rel(<<Comp("mc"), Comp("runtime")>>)],
    [root |-> Abs(<<>>),
     assets |-> Abs(<<Comp("assets")>>),
     libraries |-> Abs(<<Comp("libraries")>>),
     versions |-> Abs(<<Comp("versions")>>),
     runtime |-> Abs(<<Comp("runtime")>>)] }

\* Source names: "1.7.10", "com/example/lib-1.0.jar", "/etc/passwd",
\* "../../evil" and "/".
NameSample == {
    Rel(<<<<"1.7", ".", "10">>>>),
    Rel(<<Comp("com"), Comp("example"), <<"lib-1.0", ".", "jar">>>>),
    Abs(<<Comp("etc"), Comp("passwd")>>),
    Rel(<<Comp(".."), Comp(".."), Comp("evil")>>),
    Abs(<<>>) }

\* enum SourceKind as Dirs::locate matches it.
KindSample ==
    {[tag |-> t] : t \in {"VersionManifest", "AssetIndex", "ClientJar",
                          "ServerJar", "VersionInfo"}}
    \cup [tag : {"Asset"}, legacy : BOOLEAN]
    \cup [tag : {"Library"}, zipped : BOOLEAN]
    \cup [tag : {"JvmInfo"}, platform : {Str("linux")},
          jvm_mojang_name : {Str("jre-legacy")}]
    \cup [tag : {"JvmFile"}, platform : {Str("linux")},
          jvm_mojang_name : {Str("jre-legacy")},
          executable : {FALSE}, compressed : BOOLEAN]

\* Source::Remote values.
RemoteSample == [tag : {"Remote"}, name : NameSample, kind : KindSample,
                 size : {None, Some(1)}]

\* Entry names of the archive: "liblwjgl.so", "META-INF/MANIFEST.MF",
\* "/etc/cron.d/evil" and "../../evil".
ArchiveEntries == <<
    Rel(<<<<"liblwjgl", ".", "so">>>>),
    Rel(<<Comp("META-INF"), <<"MANIFEST", ".", "MF">>>>),
    Abs(<<Comp("etc"), Comp("cron.d"), Comp("evil")>>),
    Rel(<<Comp(".."), Comp(".."), Comp("evil")>>) >>

\* The sources a zipped file is built from: the zipped libraries.
ZippedRemotes == {r \in RemoteSample :
                    r.kind.tag = "Library" /\ r.kind.zipped /\ r.size = None}

NativesKind == [tag |-> "Natives", classifier |-> Str("1.7.10")]

\* Source::Archive values over a downloaded archive.
PlainArchives == [tag : {"Archive"},
                  zipped : [source : ZippedRemotes,
                            archive : {ArchiveEntries}],
                  index : 0..Len(ArchiveEntries),
                  kind : {NativesKind}]

\* Source::Archive values whose archive is itself an entry of an archive.
NestedArchives == [tag : {"Archive"},
                   zipped : [source : {a \in PlainArchives : a.index = 0},
                             archive : {ArchiveEntries}],
                   index : {0},
                   kind : {NativesKind}]

SourceSample == RemoteSample \cup PlainArchives \cup NestedArchives

NoSource == [tag |-> "none"]

DirInit ==
    /\ dirs \in DirsSample
    /\ src = NoSource
    /\ located = NotCalled

\* dirs.locate(&x) is called.
LocateSource(x) ==
    /\ src = NoSource
    /\ src' = x
    /\ located' = Locate(dirs, x)
    /\ UNCHANGED dirs
    /\ UNCHANGED outsideDirs

DirNext == \E x \in SourceSample : LocateSource(x)

\* ======================================================================
\* Part V: the sources a version document provides (src/src/data/imp.rs)
\* ======================================================================

\* A classifier template is the sequence of the pieces of its text, a
\* placeholder being one piece. substitute_params with the one parameter
\* ("arch", bitness) replaces the ${arch} pieces.
SubstituteArch(template, bitness) ==
    [i \in DOMAIN template |->
        IF template[i] = "${arch}" THEN bitness ELSE template[i]]

\* fn calc_native_str(lib, os_name, bitness): the classifier
\* lib.natives[os_name] resolves to, if lib.resources.extra has it.
calc_native_str(lib, os_name, bitness) ==
    IF os_name \notin DOMAIN lib.natives THEN None
    ELSE LET full_classifier == SubstituteArch(lib.natives[os_name], bitness)
         IN  IF full_classifier \in lib.extra THEN Some(full_classifier)
             ELSE None

\* `let variants = [...]` of VersionInfo::provides.
variants == <<
    [flag |-> Linux64, os_name |-> "linux", arch |-> "64"],
    [flag |-> Linux32, os_name |-> "linux", arch |-> "32"],
    [flag |-> OSX64 \cup MacOS64, os_name |-> "osx", arch |-> "64"],
    [flag |-> OSX32 \cup MacOS32, os_name |-> "osx", arch |-> "32"],
    [flag |-> Windows64 \cup Windows10_64, os_name |-> "windows",
     arch |-> "64"],
    [flag |-> Windows32 \cup Windows10_32, os_name |-> "windows",
     arch |-> "32"] >>

\* Iterator::flatten over a sequence of Options.
RECURSIVE Flatten(_)
Flatten(opts) ==
    IF opts = <<>> THEN <<>> ELSE Head(opts) \o Flatten(Tail(opts))

\* The `natives` array after the loop over the variants: slot v holds the
\* ZippedNatives source of variant v, if the selector has its flag and the
\* library has the resource. `of` is the library the source's url, name,
\* hash and size come from, `resource` the key of that resource in extra.
NativeSlots(lib, i, os_selector) ==
    [v \in DOMAIN variants |->
        IF Intersects(os_selector, variants[v].flag)
        THEN LET found == calc_native_str(lib, variants[v].os_name,
                                          variants[v].arch)
             IN  IF found = None THEN None
                 ELSE Some([kind |-> "ZippedNatives", of |-> i,
                            resource |-> found[1]])
        ELSE None]

\* The closure of flat_map: natives.into_iter().flatten().chain(library)
LibrarySources(lib, i, os_selector) ==
    LET library == IF lib.artifact
                   THEN Some([kind |-> "Library", of |-> i,
                              resource |-> <<"artifact">>])
                   ELSE None
    IN  Flatten(NativeSlots(lib, i, os_selector)) \o library

\* Fault variant of LibraryFilter: the rules are not consulted.
LibraryFilterNone(lib, params, os_selector) == TRUE

\* The closure of filter: lib.rules.is_allowed(config.params,
\* config.os_selector)
LibraryFilter(lib, params, os_selector) ==
    RulesIsAllowed(lib.rules, params, os_selector)

\* self.libraries.iter().filter(..).flat_map(..), from library i on.
RECURSIVE LibrariesFrom(_, _, _, _)
LibrariesFrom(libs, i, params, os_selector) ==
    IF i > Len(libs) THEN <<>>
    ELSE (IF LibraryFilter(libs[i], params, os_selector)
          THEN LibrarySources(libs[i], i, os_selector)
          ELSE <<>>)
         \o LibrariesFrom(libs, i + 1, params, os_selector)

\* <VersionInfo as Artifact>::provides
Provides(self, params, os_selector) ==
    LET asset_index == <<[kind |-> "AssetIndex", of |-> 0,
                          resource |-> <<"asset_index">>]>>
        client_jar == <<[kind |-> "ClientJar", of |-> 0,
                         resource |-> <<"client">>]>>
        server_jar == IF self.server
                      THEN Some([kind |-> "ServerJar", of |-> 0,
                                 resource |-> <<"server">>])
                      ELSE None
    IN  client_jar \o server_jar \o asset_index
           \o LibrariesFrom(self.libraries, 1, params, os_selector)

\* ------------------------------------------------------- bounded inputs

\* Rule lists of the libraries.
LibraryRulesSample == {
    <<>>,
    <<[action |-> "Allow",
       os |-> [name |-> Some("linux"), arch |-> None, version |-> None],
       features |-> <<>>]>>,
    <<[action |-> "Disallow",
       os |-> [name |-> Some("osx"), arch |-> None, version |-> None],
       features |-> <<>>]>>,
    <<[action |-> "Allow",
       os |-> [name |-> None, arch |-> None, version |-> None],
       features |-> [k \in {"has_custom_resolution"} |-> TRUE]]>> }

\* natives maps and extra resources of the libraries: no natives; linux
\* natives without a placeholder; windows natives with ${arch} of which
\* only the 64-bit resource exists; natives named but not shipped.
NativesSample == {
    [natives |-> <<>>, extra |-> {}],
    [natives |-> [o \in {"linux"} |-> <<"natives-linux">>],
     extra |-> {<<"natives-linux">>}],
    [natives |-> [o \in {"windows"} |-> <<"natives-windows-", "${arch}">>],
     extra |-> {<<"natives-windows-", "64">>}],
    [natives |-> [o \in {"osx"} |-> <<"natives-osx">>], extra |-> {}] }

LibrarySample ==
    {[rules |-> r, artifact |-> a, natives |-> n.natives, extra |-> n.extra] :
        r \in LibraryRulesSample, a \in BOOLEAN, n \in NativesSample}

\* Feature maps of the configuration.
ParamsSample == {f \in FeatureMaps :
    DOMAIN f = {} \/ (DOMAIN f = {"has_custom_resolution"}
                      /\ f["has_custom_resolution"])}

ProvInit ==
    /\ versionInfo \in [server : BOOLEAN, libraries : {<<>>}]
    /\ provided = None

\* A library of the document is deserialised.
PushLibrary(lib) ==
    /\ provided = None
    /\ Len(versionInfo.libraries) < MaxLibraries
    /\ versionInfo' = [versionInfo EXCEPT !.libraries = Append(@, lib)]
    /\ UNCHANGED <<provided, features, selector>>
    /\ UNCHANGED outsideProvides

\* provides(config) is called and its iterator drained.
Provide ==
    /\ provided = None
    /\ provided' = Some(Provides(versionInfo, features, selector))
    /\ UNCHANGED <<versionInfo, features, selector>>
    /\ UNCHANGED outsideProvides

ProvNext ==
    \/ \E lib \in LibrarySample : PushLibrary(lib)
    \/ Provide

\* ======================================================================
\* Part VI: the sources an asset index provides (src/src/data/imp.rs)
\* ======================================================================

\* A Url is its host and the segments of its path; the path is "/"
\* followed by the segments joined by "/", so a last segment "" is a
\* trailing slash and Url::parse("http://host") has the one segment "".
Url(host, segs) == [host |-> host, segs |-> segs]

\* Url::join(base, rel) for a relative path reference rel (RFC 3986
\* 5.2.3 merge): the last segment of the base path is removed, whatever
\* it is, and the segments of the reference take its place.
UrlJoin(base, rel) ==
    [base EXCEPT !.segs = SubSeq(@, 1, Len(@) - 1) \o rel]

\* Text of a sequence of one-character strings, kept as the sequence.
\* format!("{}/{}", &hash[..2], &hash) as the two segments of that text.
HashPath(hash) == <<SubSeq(hash, 1, 2), hash>>

\* The closure of map in AssetIndex::provides: the Source of one entry.
\* `of` is the key of the entry the source was built from.
AssetSource(self, config, path) ==
    LET meta == self.objects[path]
        hash_path == HashPath(meta.hash)
    IN  [tag |-> "Remote",
         kind |-> [tag |-> "Asset", legacy |-> self.map_to_resources],
         url |-> UrlJoin(config.origin, hash_path),
         name |-> IF self.map_to_resources THEN <<path>> ELSE hash_path,
         hash |-> Some(meta.hash),
         size |-> Some(meta.size),
         of |-> path]

\* ------------------------------------------------------- bounded inputs

\* Logical paths of the objects map.
AssetPaths == {"icons/icon_16x16.png", "lang/en_US.lang", "pack.mcmeta"}

\* SHA-1 digests as their hex text, cut to four characters; two of them
\* share the first two.
HashSample == {<<"a", "b", "c", "d">>, <<"a", "b", "0", "1">>,
               <<"0", "1", "c", "d">>}

AssetMetadataSample == [hash : HashSample, size : 1..MaxSize]

\* Origins: the default one (no path), a mirror under a directory given
\* with and without its trailing slash.
OriginSample == {
    Url("resources.download.minecraft.net", <<"">>),
    Url("mirror.example", <<"assets", "">>),
    Url("mirror.example", <<"assets">>) }

AssetInit ==
    /\ assetIndex \in [map_to_resources : BOOLEAN, objects : {<<>>}]
    /\ assetConfig \in [origin : OriginSample]
    /\ assetPc = "parsed"
    /\ assetSeen = {}
    /\ assetOut = <<>>

\* An entry of "objects" is deserialised.
InsertObject(path, meta) ==
    /\ assetPc = "parsed"
    /\ path \notin DOMAIN assetIndex.objects
    /\ Cardinality(DOMAIN assetIndex.objects) < MaxObjects
    /\ assetIndex' = [assetIndex EXCEPT !.objects =
          [p \in DOMAIN @ \cup {path} |->
              IF p = path THEN meta ELSE @[p]]]
    /\ UNCHANGED <<assetConfig, assetPc, assetSeen, assetOut>>
    /\ UNCHANGED outsideAsset

\* provides(config) is called: the iterator borrows the index.
AssetProvides ==
    /\ assetPc = "parsed"
    /\ assetPc' = "iterating"
    /\ UNCHANGED <<assetIndex, assetConfig, assetSeen, assetOut>>
    /\ UNCHANGED outsideAsset

\* Iterator::next yields the source of the next entry; a HashMap iterates
\* its entries once each, in an order of its own.
AssetIterNext(path) ==
    /\ assetPc = "iterating"
    /\ path \in DOMAIN assetIndex.objects \ assetSeen
    /\ assetSeen' = assetSeen \cup {path}
    /\ assetOut' = Append(assetOut,
                          AssetSource(assetIndex, assetConfig, path))
    /\ UNCHANGED <<assetIndex, assetConfig, assetPc>>
    /\ UNCHANGED outsideAsset

\* Iterator::next returns None.
AssetIterEnd ==
    /\ assetPc = "iterating"
    /\ assetSeen = DOMAIN assetIndex.objects
    /\ assetPc' = "exhausted"
    /\ UNCHANGED <<assetIndex, assetConfig, assetSeen, assetOut>>
    /\ UNCHANGED outsideAsset

AssetNext ==
    \/ \E path \in AssetPaths, meta \in AssetMetadataSample :
          InsertObject(path, meta)
    \/ AssetProvides
    \/ \E path \in AssetPaths : AssetIterNext(path)
    \/ AssetIterEnd

\* ======================================================================
\* Part VII: the sources a natives archive provides (src/src/data/imp.rs)
\* ======================================================================

\* Fault variant of ExcludedAny: only the first exclude string is tried.
ExcludedFirst(exclude, name) ==
    exclude # <<>> /\ StartsWith(name, exclude[1])

\* self.exclude.iter().any(|exclude| entry.name.starts_with(exclude))
ExcludedAny(exclude, name) ==
    \E k \in 1..Len(exclude) : StartsWith(name, exclude[k])

\* The closure of filter_map in ZippedNatives::provides for index i
\* (0-based): archive.name_for_index(i) is Some for every i below
\* archive.len().
ZipEntrySource(self, i) ==
    LET name == self.archive[i + 1]
    IN  IF ExcludedAny(self.exclude, name) THEN None
        ELSE Some([tag |-> "Archive",
                   entry |-> [name |-> name, index |-> i],
                   kind |-> [tag |-> "Natives",
                             classifier |-> self.classifier]])

\* ------------------------------------------------------- bounded inputs

\* Entry names, as sequences of characters: "M/" (a directory), "M/a",
\* "Ma", "a" and "b".
EntryNames == {<<"M", "/">>, <<"M", "/", "a">>, <<"M", "a">>, <<"a">>,
               <<"b">>}

\* extract.exclude lists: none; ["M/"]; ["b", "M/"]; ["M"]; [""].
ExcludeSample == {<<>>, << <<"M", "/">> >>, << <<"b">>, <<"M", "/">> >>,
                  << <<"M">> >>, << <<>> >>}

ZipInit ==
    /\ zipped \in [archive : {<<>>}, exclude : ExcludeSample,
                   classifier : {"1.7.10"}]
    /\ zipPc = "loaded"
    /\ zipIdx = 0
    /\ zipOut = <<>>

\* The central directory of the archive lists one more file; ZipArchive
\* keeps the files in an index map keyed by name.
ZipPushEntry(name) ==
    /\ zipPc = "loaded"
    /\ Len(zipped.archive) < MaxEntries
    /\ \A k \in 1..Len(zipped.archive) : zipped.archive[k] # name
    /\ zipped' = [zipped EXCEPT !.archive = Append(@, name)]
    /\ UNCHANGED <<zipPc, zipIdx, zipOut>>
    /\ UNCHANGED outsideZip

\* provides(()) is called.
ZipProvides ==
    /\ zipPc = "loaded"
    /\ zipPc' = "iterating"
    /\ UNCHANGED <<zipped, zipIdx, zipOut>>
    /\ UNCHANGED outsideZip

\* The range 0..archive.len() hands its next index to the closure, which
\* yields the entry's source or filters the entry out.
ZipVisit ==
    /\ zipPc = "iterating"
    /\ zipIdx < Len(zipped.archive)
    /\ zipOut' = zipOut \o ZipEntrySource(zipped, zipIdx)
    /\ zipIdx' = zipIdx + 1
    /\ UNCHANGED <<zipped, zipPc>>
    /\ UNCHANGED outsideZip

\* The range is exhausted: Iterator::next returns None.
ZipIterEnd ==
    /\ zipPc = "iterating"
    /\ zipIdx = Len(zipped.archive)
    /\ zipPc' = "exhausted"
    /\ UNCHANGED <<zipped, zipIdx, zipOut>>
    /\ UNCHANGED outsideZip

ZipNext ==
    \/ \E name \in EntryNames : ZipPushEntry(name)
    \/ ZipProvides
    \/ ZipVisit
    \/ ZipIterEnd

\* ======================================================================
\* Part VIII: library paths (src/src/util.rs, build_library_path)
\* ======================================================================

\* Texts are sequences of one-character strings.

\* str::find(c): the index of the first c in s, 0 if there is none.
Find(s, c) ==
    IF \E k \in 1..Len(s) : s[k] = c
    THEN CHOOSE k \in 1..Len(s) : s[k] = c /\ \A j \in 1..(k - 1) : s[j] # c
    ELSE 0

\* str::splitn(n, c) collected: at most n parts, the last one keeping
\* the remaining separators.
RECURSIVE SplitN(_, _, _)
SplitN(s, n, c) ==
    IF n = 1 \/ Find(s, c) = 0 THEN <<s>>
    ELSE <<SubSeq(s, 1, Find(s, c) - 1)>>
            \o SplitN(SubSeq(s, Find(s, c) + 1, Len(s)), n - 1, c)

\* str::split(c) collected.
Split(s, c) == SplitN(s, Len(s) + 1, c)

\* PathBuf::push on a Unix path kept as its text: an absolute argument
\* replaces the path; otherwise a separator is written unless the path is
\* empty or ends with one, and the argument is appended.
PushStr(path_buf, p) ==
    IF p # <<>> /\ p[1] = "/" THEN p
    ELSE IF path_buf # <<>> /\ path_buf[Len(path_buf)] # "/"
         THEN path_buf \o <<"/">> \o p
    ELSE path_buf \o p

\* lib.split('.').for_each(|path| path_buf.push(path))
RECURSIVE PushEach(_, _)
PushEach(path_buf, parts) ==
    IF parts = <<>> THEN path_buf
    ELSE PushEach(PushStr(path_buf, Head(parts)), Tail(parts))

JarSuffix == <<".", "j", "a", "r">>

\* pub fn build_library_path(name, hash, native_str) -> String
build_library_path(name, hash, native_str) ==
    LET parts == SplitN(name, 3, ":")
    IN  IF Len(parts) = 3
        THEN LET lib == parts[1]
                 artifact == parts[2]
                 version == parts[3]
                 dirs3 == PushStr(PushStr(PushEach(<<>>, Split(lib, ".")),
                                          artifact), version)
                 file == IF native_str # None
                         THEN artifact \o <<"-">> \o version \o <<"-">>
                                  \o native_str[1] \o JarSuffix
                         ELSE artifact \o <<"-">> \o version \o JarSuffix
             IN  PushStr(dirs3, file)
        ELSE IF name = <<>> THEN hash \o JarSuffix
             ELSE name \o <<"-">> \o hash \o JarSuffix

\* ------------------------------------------------------- bounded inputs

NameAlphabet == {"a", ".", ":", "/"}

\* Every text of at most n characters of the alphabet.
TextsUpTo(alphabet, n) == UNION {[1..k -> alphabet] : k \in 0..n}

LibPathInit ==
    /\ libName \in TextsUpTo(NameAlphabet, MaxNameLen)
    /\ libClassifier \in {None, Some(<<"n">>)}
    /\ libHash = <<"h">>
    /\ libPath = None

\* build_library_path is called on the arguments.
BuildLibraryPath ==
    /\ libPath = None
    /\ libPath' = Some(build_library_path(libName, libHash, libClassifier))
    /\ UNCHANGED <<libName, libClassifier, libHash>>
    /\ UNCHANGED outsideLibPath

LibPathNext == BuildLibraryPath

\* ======================================================================
\* Part IX: placeholder substitution (src/src/util.rs, substitute_params)
\* ======================================================================

\* &s[a..b] with the 0-based offsets of the code.
Slice(s, a, b) == SubSeq(s, a + 1, b)

\* str::find(pat): the offset of the first occurrence of pat in s, -1
\* for None.
FindStr(s, pat) ==
    LET hits == {k \in 0..(Len(s) - Len(pat)) :
                    Slice(s, k, k + Len(pat)) = pat}
    IN  IF hits = {} THEN -1
        ELSE CHOOSE k \in hits : \A j \in hits : k <= j

\* value == &template[open..=close]
SameAsLiteral(value, literal) == value = literal

\* Fault variant of SubstReturn: the text after the last placeholder is
\* not pushed.
SubstReturnNoTail(template, emit_start, output) ==
    IF output # None
    THEN [owned |-> TRUE, text |-> output[1]]
    ELSE [owned |-> FALSE, text |-> template]

\* The lines after the loop of substitute_params: Cow::Owned(out) with
\* the rest of the template, or Cow::Borrowed(template).
SubstReturn(template, emit_start, output) ==
    IF output # None
    THEN [owned |-> TRUE,
          text |-> output[1] \o Slice(template, emit_start, Len(template))]
    ELSE [owned |-> FALSE, text |-> template]

\* The while loop of substitute_params, from the values its three
\* variables have at the head of an iteration.
RECURSIVE SubstLoop(_, _, _, _, _)
SubstLoop(template, params, start, emit_start, output) ==
    LET found == FindStr(Slice(template, start, Len(template)),
                         <<"$", "{">>)
        open == start + found
        closing == FindStr(Slice(template, open + 2, Len(template)),
                           <<"}">>)
        close == open + 2 + closing
        key == Slice(template, open + 2, close)
        literal == Slice(template, open, close + 1)
        out == IF output = None THEN <<>> ELSE output[1]
        verbatim == Some(out \o Slice(template, emit_start, open)
                             \o literal)
    IN  IF found = -1 THEN SubstReturn(template, emit_start, output)
        ELSE IF closing = -1
        THEN SubstReturn(template, emit_start, output)
        ELSE IF key \in DOMAIN params
        THEN IF SameAsLiteral(params[key], literal)
             THEN IF output # None
                  THEN SubstLoop(template, params, close + 1, close + 1,
                                 verbatim)
                  ELSE SubstLoop(template, params, close + 1, emit_start,
                                 output)
             ELSE SubstLoop(template, params, close + 1, close + 1,
                            Some(out \o Slice(template, emit_start, open)
                                     \o params[key]))
        ELSE IF output # None
        THEN SubstLoop(template, params, close + 1, close + 1, verbatim)
        ELSE SubstLoop(template, params, close + 1, emit_start, output)

\* pub fn substitute_params(template, params) -> Cow<str>
substitute_params(template, params) ==
    SubstLoop(template, params, 0, 0, None)

\* ------------------------------------------------------- bounded inputs

TemplateAlphabet == {"$", "{", "}", "k"}

\* Parameter maps over the keys "k" and "": none; a plain value; the
\* placeholder's own text; an empty value; a value that reads as another
\* placeholder, with and without that placeholder's key.
ParamMaps == {
    <<>>,
    [x \in {<<"k">>} |-> <<"v">>],
    [x \in {<<"k">>} |-> <<"$", "{", "k", "}">>],
    [x \in {<<"k">>, <<>>} |->
        IF x = <<>> THEN <<"$", "{", "}">> ELSE <<"v">>],
    [x \in {<<"k">>, <<>>} |->
        IF x = <<>> THEN <<"w">> ELSE <<"$", "{", "k", "}">>],
    [x \in {<<>>} |-> <<>>],
    [x \in {<<"k">>, <<>>} |->
        IF x = <<>> THEN <<"w">> ELSE <<"$", "{", "}">>] }

SubstInit ==
    /\ substTemplate \in TextsUpTo(TemplateAlphabet, MaxTemplateLen)
    /\ substParams \in ParamMaps
    /\ substituted = None

\* substitute_params is called on the arguments.
Substitute ==
    /\ substituted = None
    /\ substituted' = Some(substitute_params(substTemplate, substParams))
    /\ UNCHANGED <<substTemplate, substParams>>
    /\ UNCHANGED outsideSubst

SubstNext == Substitute

\* ======================================================================
\* Part X: the resolvers of the examples (src/examples/print.rs, save.rs)
\* ======================================================================

Resolves == 1..NumResolves

\* The statement that acquires the permit keeps it in a binding that
\* lives to the end of resolve: `let _permit = ..` of save.rs does,
\* `let _ = ..` of print.rs binds nothing and the permit is dropped at the
\* end of the statement.
KeepsPermit(impl) == impl = "save"

\* The resolver acquires for this input: save.rs before the match, for
\* every source; print.rs inside the Source::Remote arm.
Acquires(impl, input) == impl = "save" \/ input = "Remote"

ResolverInit ==
    /\ resImpl \in {"print", "save"}
    /\ resLimit \in 1..MaxPermits
    /\ resPermits = resLimit
    /\ resInput = [t \in Resolves |-> "none"]
    /\ resPc = [t \in Resolves |-> "idle"]
    /\ resHolds = [t \in Resolves |-> FALSE]

\* The traversal pushes resolver.resolve(input) on its FuturesUnordered
\* and the future is polled up to its first await.
ResolveCall(t, input) ==
    /\ resPc[t] = "idle"
    /\ resInput' = [resInput EXCEPT ![t] = input]
    /\ resPc' = [resPc EXCEPT ![t] =
          IF Acquires(resImpl, input) THEN "acquire" ELSE "read"]
    /\ UNCHANGED <<resImpl, resLimit, resPermits, resHolds>>
    /\ UNCHANGED outsideResolver

\* self.limiter.acquire().await completes and the statement ends; the
\* future goes on to reqwest::get (Remote) or to the archive (Archive).
AcquirePermit(t) ==
    /\ resPc[t] = "acquire"
    /\ resPermits > 0
    /\ IF KeepsPermit(resImpl)
       THEN /\ resPermits' = resPermits - 1
            /\ resHolds' = [resHolds EXCEPT ![t] = TRUE]
       ELSE UNCHANGED <<resPermits, resHolds>>
    /\ resPc' = [resPc EXCEPT ![t] =
          IF resInput[t] = "Remote" THEN "fetch" ELSE "read"]
    /\ UNCHANGED <<resImpl, resLimit, resInput>>
    /\ UNCHANGED outsideResolver

\* resolve returns Ok or Err (`?`): its locals are dropped.
ResolveReturn(t, from) ==
    /\ resPc[t] = from
    /\ resPc' = [resPc EXCEPT ![t] = "done"]
    /\ resPermits' = IF resHolds[t] THEN resPermits + 1 ELSE resPermits
    /\ resHolds' = [resHolds EXCEPT ![t] = FALSE]
    /\ UNCHANGED <<resImpl, resLimit, resInput>>
    /\ UNCHANGED outsideResolver

\* reqwest::get(url).and_then(Response::bytes) resolves, the bytes are
\* decoded and resolve returns.
FetchDone(t) == ResolveReturn(t, "fetch")

\* The archive entry is read and resolve returns.
ReadDone(t) == ResolveReturn(t, "read")

ResolverNext ==
    \E t \in Resolves :
        \/ \E input \in {"Remote", "Archive"} : ResolveCall(t, input)
        \/ AcquirePermit(t)
        \/ FetchDone(t)
        \/ ReadDone(t)

\* ======================================================================
\* Part XI: the traversal driver (src/examples/save.rs, download)
\* ======================================================================

RemoteOf(kind) == [tag |-> "Remote", kind |-> kind]
ArchiveSource == [tag |-> "Archive", kind |-> "Natives"]

\* Fault variant of ResolvedAs: an archive entry is opened as an archive
\* of natives itself.
ResolvedAsNested(source) ==
    IF source.tag = "Archive" THEN "ZippedNatives"
    ELSE IF source.kind \in {"VersionManifest", "VersionInfo", "AssetIndex",
                             "ZippedNatives"}
    THEN source.kind
    ELSE "JustFile"

\* The artifact type SimpleResolver::resolve builds for a source: the
\* match on the kind of a Remote source, and the Archive arm.
ResolvedAs(source) ==
    IF source.tag = "Archive" THEN "JustFile"
    ELSE IF source.kind \in {"VersionManifest", "VersionInfo", "AssetIndex",
                             "ZippedNatives"}
    THEN source.kind
    ELSE "JustFile"

\* The sources Artifact::provides of each artifact type can yield.
ProvidedBy(artifact) ==
    CASE artifact = "JustFile" -> {}
      [] artifact = "ZippedNatives" -> {ArchiveSource}
      [] artifact = "VersionManifest" -> {RemoteOf("VersionInfo")}
      [] artifact = "AssetIndex" -> {RemoteOf("Asset")}
      [] artifact = "VersionInfo" ->
            {RemoteOf(k) : k \in {"ClientJar", "ServerJar", "AssetIndex",
                                  "Library", "ZippedNatives"}}

\* The lists of at most n sources an upstream document of that artifact
\* type can make provides yield.
Documents(artifact, n) ==
    UNION {[1..k -> ProvidedBy(artifact)] : k \in 0..n}

\* A source of the traversal: what it is, the source whose artifact
\* provided it (0 for the root) and how far its save(..) future is:
\* "inflight", "ok"/"err" (its result is on the stack), "expanded" (popped,
\* children collected) or "dropped" (popped, Err).
Node(source, parent) ==
    [source |-> source, parent |-> parent, status |-> "inflight"]

\* The root sources tried: the two documents the examples start from, and
\* a kind the resolver has no arm for.
RootKinds == {"VersionManifest", "VersionInfo", "JvmInfo"}

TravInit ==
    /\ travNodes \in {<<Node(RemoteOf(k), 0)>> : k \in RootKinds}
    /\ travStack = <<>>
    /\ travPc = "root"

\* A save(resolver, source) future resolves, with Ok(artifact) or with the
\* Err of resolve; the driver pushes the result: `vec![save(..).await]`
\* for the root, `stack.push(next)` for a child.
SaveDone(n, res) ==
    /\ travPc \in {"root", "drain"}
    /\ travNodes[n].status = "inflight"
    /\ travNodes' = [travNodes EXCEPT ![n].status = res]
    /\ travStack' = Append(travStack, n)
    /\ travPc' = IF travPc = "root" THEN "pop" ELSE travPc
    /\ UNCHANGED outsideTrav

\* A save(..) future panics (the unwrap of local_path.parent(), or a panic
\* of Dirs::locate): download unwinds.
SavePanics(n) ==
    /\ travPc \in {"root", "drain"}
    /\ travNodes[n].status = "inflight"
    /\ travPc' = "aborted"
    /\ UNCHANGED <<travNodes, travStack>>
    /\ UNCHANGED outsideTrav

\* `while let Some(result) = stack.pop()` with an Err: `continue`.
PopErr ==
    /\ travPc = "pop" /\ travStack # <<>>
    /\ LET n == travStack[Len(travStack)]
       IN  /\ travNodes[n].status = "err"
           /\ travNodes' = [travNodes EXCEPT ![n].status = "dropped"]
    /\ travStack' = SubSeq(travStack, 1, Len(travStack) - 1)
    /\ UNCHANGED travPc
    /\ UNCHANGED outsideTrav

\* stack.pop() with an Ok: the artifact's provides is mapped to save
\* futures collected in a FuturesUnordered.
PopOk(kids) ==
    /\ travPc = "pop" /\ travStack # <<>>
    /\ LET n == travStack[Len(travStack)]
       IN  /\ travNodes[n].status = "ok"
           /\ kids \in Documents(ResolvedAs(travNodes[n].source),
                                 MaxChildren)
           /\ Len(travNodes) + Len(kids) <= MaxNodes
           /\ travNodes' = [travNodes EXCEPT ![n].status = "expanded"]
                              \o [k \in 1..Len(kids) |-> Node(kids[k], n)]
    /\ travStack' = SubSeq(travStack, 1, Len(travStack) - 1)
    /\ travPc' = "drain"
    /\ UNCHANGED outsideTrav

\* sources.next().await yields None: the inner loop ends.
DrainEnd ==
    /\ travPc = "drain"
    /\ \A n \in 1..Len(travNodes) : travNodes[n].status # "inflight"
    /\ travPc' = "pop"
    /\ UNCHANGED <<travNodes, travStack>>
    /\ UNCHANGED outsideTrav

\* stack.pop() yields None: download returns.
DownloadReturn ==
    /\ travPc = "pop" /\ travStack = <<>>
    /\ travPc' = "done"
    /\ UNCHANGED <<travNodes, travStack>>
    /\ UNCHANGED outsideTrav

\* Every list of at most MaxChildren sources of any artifact type.
AllDocuments ==
    UNION {Documents(a, MaxChildren) :
              a \in {"JustFile", "ZippedNatives", "VersionManifest",
                     "AssetIndex", "VersionInfo"}}

TravNext ==
    \/ \E n \in 1..MaxNodes, res \in {"ok", "err"} :
          n <= Len(travNodes) /\ SaveDone(n, res)
    \/ \E n \in 1..MaxNodes : n <= Len(travNodes) /\ SavePanics(n)
    \/ PopErr
    \/ \E kids \in AllDocuments : PopOk(kids)
    \/ DrainEnd
    \/ DownloadReturn

\* ======================================================================
\* Part XII: the atomic-state task manager (src/api/src/tasks.rs)
\* ======================================================================
\* One task and its Handle.  The state is an AtomicCell, the waker a
\* Mutex<Option<Waker>>: every load, store and waker access is a step of
\* its own, and the steps of Task::poll (run by the executor) interleave
\* with the steps of the handle operations (run by the callers).

Callers == 1..NumCallers
HandleOps == {"pause", "resume", "cancel", "result"}

\* The states in which a handle operation goes on to its store.
Matches(op, st) ==
    CASE op = "pause" -> st = "Running"
      [] op = "resume" -> st = "Paused"
      [] op = "cancel" -> st \in {"Running", "Paused"}
      [] op = "result" -> FALSE

\* The state a handle operation stores.
Stores(op) ==
    CASE op = "pause" -> "Paused"
      [] op = "resume" -> "Running"
      [] op = "cancel" -> "Cancelled"

ApiInit ==
    /\ apiState = "Pending"
    /\ apiWaker = FALSE
    /\ apiResult = "uninit"
    /\ apiPollPc = "idle"
    /\ apiNotified = TRUE
    /\ apiRegistered = FALSE
    /\ apiLastPoll = "none"
    /\ apiOp = [c \in Callers |-> "none"]
    /\ apiOpPc = [c \in Callers |-> "idle"]
    /\ apiGot = "none"
    /\ apiHist = [cancelStored |-> FALSE, innerReady |-> FALSE,
                  repolled |-> FALSE, overwritten |-> FALSE,
                  gotAfterCancel |-> FALSE]

callerVars == <<apiOp, apiOpPc, apiGot>>
pollVars == <<apiPollPc, apiLastPoll>>

\* The executor polls the task: it was woken and no poll is under way.
PollStart ==
    /\ apiPollPc = "idle" /\ apiNotified
    /\ apiNotified' = FALSE
    /\ apiPollPc' = "load"
    /\ UNCHANGED <<apiState, apiWaker, apiResult, apiRegistered,
                   apiLastPoll, callerVars, apiHist>>
    /\ UNCHANGED outsideApi

\* `match this.handle.state()`: the load picks the arm.
PollLoad ==
    /\ apiPollPc = "load"
    /\ apiPollPc' = CASE apiState = "Pending" -> "pending_arm"
                      [] apiState = "Running" -> "running_arm"
                      [] apiState = "Paused" -> "paused_arm"
                      [] OTHER -> "returned"
    /\ apiLastPoll' = IF apiState \in {"Finished", "Cancelled"}
                      THEN "Ready" ELSE apiLastPoll
    /\ UNCHANGED <<apiState, apiWaker, apiResult, apiNotified,
                   apiRegistered, callerVars, apiHist>>
    /\ UNCHANGED outsideApi

\* State::Pending arm: change_state(Running); continue.
PollPendingArm ==
    /\ apiPollPc = "pending_arm"
    /\ apiState' = "Running"
    /\ apiPollPc' = "load"
    /\ UNCHANGED <<apiWaker, apiResult, apiNotified, apiRegistered,
                   apiLastPoll, callerVars, apiHist>>
    /\ UNCHANGED outsideApi

\* State::Running arm: fut.poll(cx).  A Pending inner future keeps the
\* waker of cx to wake the task later.
PollInner(res) ==
    /\ apiPollPc = "running_arm"
    /\ apiPollPc' = IF res = "Ready" THEN "ready" ELSE "inner_pending"
    /\ apiRegistered' = (res = "Pending")
    /\ apiHist' = [apiHist EXCEPT
                      !.repolled = @ \/ apiHist.innerReady,
                      !.innerReady = @ \/ res = "Ready"]
    /\ UNCHANGED <<apiState, apiWaker, apiResult, apiNotified,
                   apiLastPoll, callerVars>>
    /\ UNCHANGED outsideApi

\* Poll::Ready(res): change_result(res).
PollChangeResult ==
    /\ apiPollPc = "ready"
    /\ apiResult' = "init"
    /\ apiPollPc' = "result_written"
    /\ UNCHANGED <<apiState, apiWaker, apiNotified, apiRegistered,
                   apiLastPoll, callerVars, apiHist>>
    /\ UNCHANGED outsideApi

\* change_state(Finished); continue.
PollFinish ==
    /\ apiPollPc = "result_written"
    /\ apiState' = "Finished"
    /\ apiPollPc' = "load"
    /\ UNCHANGED <<apiWaker, apiResult, apiNotified, apiRegistered,
                   apiLastPoll, callerVars, apiHist>>
    /\ UNCHANGED outsideApi

\* change_waker(cx.waker().clone()); return Poll::Pending: the end of the
\* Poll::Pending branch of the Running arm and of the Paused arm.
PollChangeWaker ==
    /\ apiPollPc \in {"inner_pending", "paused_arm"}
    /\ apiWaker' = TRUE
    /\ apiPollPc' = "idle"
    /\ apiLastPoll' = "Pending"
    /\ UNCHANGED <<apiState, apiResult, apiNotified, apiRegistered,
                   callerVars, apiHist>>
    /\ UNCHANGED outsideApi

\* The event the inner future waits for: it wakes the task with the waker
\* it kept.  A task that has returned Ready is not scheduled again.
InnerWakes ==
    /\ apiRegistered
    /\ apiRegistered' = FALSE
    /\ apiNotified' = (apiPollPc # "returned")
    /\ UNCHANGED <<apiState, apiWaker, apiResult, pollVars, callerVars,
                   apiHist>>
    /\ UNCHANGED outsideApi

\* A caller enters pause(), resume(), cancel() or result().
HandleOp(c, op) ==
    /\ apiOpPc[c] = "idle"
    /\ apiOp' = [apiOp EXCEPT ![c] = op]
    /\ apiOpPc' = [apiOpPc EXCEPT ![c] = "check"]
    /\ UNCHANGED <<apiState, apiWaker, apiResult, apiNotified,
                   apiRegistered, pollVars, apiGot, apiHist>>
    /\ UNCHANGED outsideApi

\* `matches!(self.state(), ..)` of pause, resume and cancel.
HandleCheck(c) ==
    /\ apiOpPc[c] = "check" /\ apiOp[c] # "result"
    /\ IF Matches(apiOp[c], apiState)
       THEN /\ apiOpPc' = [apiOpPc EXCEPT ![c] = "store"]
            /\ UNCHANGED apiOp
       ELSE /\ apiOpPc' = [apiOpPc EXCEPT ![c] = "idle"]
            /\ apiOp' = [apiOp EXCEPT ![c] = "none"]
    /\ UNCHANGED <<apiState, apiWaker, apiResult, apiNotified,
                   apiRegistered, pollVars, apiGot, apiHist>>
    /\ UNCHANGED outsideApi

\* `match self.state()` of result(): Some(..) in state Finished.
HandleResult(c) ==
    /\ apiOpPc[c] = "check" /\ apiOp[c] = "result"
    /\ apiGot' = IF apiState = "Finished" THEN "Some" ELSE "None"
    /\ apiOp' = [apiOp EXCEPT ![c] = "none"]
    /\ apiOpPc' = [apiOpPc EXCEPT ![c] = "idle"]
    /\ apiHist' = [apiHist EXCEPT !.gotAfterCancel =
                      @ \/ (apiHist.cancelStored /\ apiState = "Finished")]
    /\ UNCHANGED <<apiState, apiWaker, apiResult, apiNotified,
                   apiRegistered, pollVars>>
    /\ UNCHANGED outsideApi

\* change_state(..) of pause, resume and cancel.
HandleStore(c) ==
    /\ apiOpPc[c] = "store"
    /\ apiState' = Stores(apiOp[c])
    /\ apiOpPc' = [apiOpPc EXCEPT ![c] = "wakeup"]
    /\ apiHist' = [apiHist EXCEPT
                      !.cancelStored = @ \/ apiOp[c] = "cancel",
                      !.overwritten = @ \/ apiState = "Finished"]
    /\ UNCHANGED <<apiWaker, apiResult, apiNotified, apiRegistered,
                   pollVars, apiOp, apiGot>>
    /\ UNCHANGED outsideApi

\* wakeup(): take the waker, if there is one, and wake the task.
HandleWakeup(c) ==
    /\ apiOpPc[c] = "wakeup"
    /\ apiWaker' = FALSE
    /\ apiNotified' = (apiNotified \/ (apiWaker /\ apiPollPc # "returned"))
    /\ apiOp' = [apiOp EXCEPT ![c] = "none"]
    /\ apiOpPc' = [apiOpPc EXCEPT ![c] = "idle"]
    /\ UNCHANGED <<apiState, apiResult, apiRegistered, pollVars, apiGot,
                   apiHist>>
    /\ UNCHANGED outsideApi

ApiNext ==
    \/ PollStart
    \/ PollLoad
    \/ PollPendingArm
    \/ \E res \in {"Ready", "Pending"} : PollInner(res)
    \/ PollChangeResult
    \/ PollFinish
    \/ PollChangeWaker
    \/ InnerWakes
    \/ \E c \in Callers, op \in HandleOps : HandleOp(c, op)
    \/ \E c \in Callers : HandleCheck(c)
    \/ \E c \in Callers : HandleResult(c)
    \/ \E c \in Callers : HandleStore(c)
    \/ \E c \in Callers : HandleWakeup(c)

\* ======================================================================
\* Specifications
\* ======================================================================

\* The part a specification is not about stays as constructed.
TaskIdle == TaskInit /\ logLevel = "OFF" /\ ~hasLimit
RuleIdle == RuleInit /\ features = <<>> /\ selector = {}
IoIdle ==
    /\ IoInit
    /\ validation = [s \in Sources |-> "Usual"]
    /\ size = [s \in Sources |-> None]
    /\ ctype = [s \in Sources |-> "Asset"]
    /\ fs = [s \in Sources |-> None]

DirIdle ==
    /\ DirInit
    /\ dirs = CHOOSE d \in DirsSample : ~d.root.abs

ProvIdle == ProvInit /\ ~versionInfo.server

AssetIdle ==
    /\ AssetInit
    /\ ~assetIndex.map_to_resources
    /\ assetConfig = [origin |->
          Url("resources.download.minecraft.net", <<"">>)]

ZipIdle == ZipInit /\ zipped.exclude = <<>>

LibPathIdle ==
    /\ libName = <<>>
    /\ libClassifier = None
    /\ libHash = <<"h">>
    /\ libPath = None

SubstIdle ==
    /\ substTemplate = <<>>
    /\ substParams = <<>>
    /\ substituted = None

ResolverIdle == ResolverInit /\ resImpl = "save" /\ resLimit = 1

TravIdle == TravInit /\ travNodes[1].source.kind = "VersionInfo"

ApiIdle == ApiInit

ExtraIdle ==
    AssetIdle /\ ZipIdle /\ LibPathIdle /\ SubstIdle
    /\ ResolverIdle /\ TravIdle /\ ApiIdle

Init == TaskInit /\ RuleIdle /\ IoIdle /\ DirIdle /\ ProvIdle /\ ExtraIdle
Next == TaskNext

\* The task manager.
Spec == Init /\ [][Next]_vars

\* The task manager under an executor that keeps polling every task that
\* has a step to take (tokio polls every notified task).
FairSpec == Spec /\ \A t \in Tasks : WF_vars(ExecStep(t))

\* A task that is Paused is resumed or cancelled through its handle.
PausedLeft(t) == state[t] = "Paused" /\ (Resume(t) \/ Cancel(t))

\* The steps of Manager::wait_all once called.
WaitAllStep == (\E t \in Tasks : JoinNext(t)) \/ WaitAllReturn

\* The task manager under that executor, with inner futures that wake
\* their task and, polled again and again, return Ready; with callers
\* that do not leave a task Paused; and with wait_all polled to its end.
LiveSpec ==
    /\ FairSpec
    /\ \A t \in Tasks :
          /\ WF_vars(InnerWake(t))
          /\ SF_vars(\E res \in {"Ok", "Err"} : InnerReady(t, res))
          /\ WF_vars(PausedLeft(t))
    /\ WF_vars(WaitAllStep)

RulesInit ==
    TaskIdle /\ RuleInit /\ IoIdle /\ DirIdle /\ ProvIdle /\ ExtraIdle
RulesNext == RuleNext

\* The rule engine.
RulesSpec == RulesInit /\ [][RulesNext]_vars

IoSpecInit ==
    TaskIdle /\ RuleIdle /\ IoInit /\ DirIdle /\ ProvIdle /\ ExtraIdle

DirSpecInit ==
    TaskIdle /\ RuleIdle /\ IoIdle /\ DirInit /\ ProvIdle /\ ExtraIdle

ProvSpecInit ==
    /\ TaskIdle /\ IoIdle /\ DirIdle /\ ProvInit /\ ExtraIdle
    /\ rules = <<>> /\ verdict = "none"
    /\ features \in ParamsSample
    /\ selector \in SelectorSample

\* A version document is read and asked for its sources.
ProvSpec == ProvSpecInit /\ [][ProvNext]_vars

\* The directory placer called on one source.
DirSpec == DirSpecInit /\ [][DirNext]_vars

\* Two traversals of the sources by sync tasks.
IoSpec == IoSpecInit /\ [][IoNext]_vars

MatchSpecInit ==
    TaskIdle /\ MatchInit /\ IoIdle /\ DirIdle /\ ProvIdle /\ ExtraIdle

\* One rule of every OS triple against every selector.
MatchSpec == MatchSpecInit /\ [][MatchNext]_vars

CoreIdle == TaskIdle /\ RuleIdle /\ IoIdle /\ DirIdle /\ ProvIdle

AssetSpecInit ==
    CoreIdle /\ AssetInit /\ ZipIdle /\ LibPathIdle
    /\ SubstIdle /\ ResolverIdle /\ TravIdle /\ ApiIdle

\* An asset index is read and its sources are iterated.
AssetSpec == AssetSpecInit /\ [][AssetNext]_vars

ZipSpecInit ==
    CoreIdle /\ AssetIdle /\ ZipInit /\ LibPathIdle
    /\ SubstIdle /\ ResolverIdle /\ TravIdle /\ ApiIdle

\* A natives archive is read and its sources are iterated.
ZipSpec == ZipSpecInit /\ [][ZipNext]_vars

LibPathSpecInit ==
    CoreIdle /\ AssetIdle /\ ZipIdle /\ LibPathInit
    /\ SubstIdle /\ ResolverIdle /\ TravIdle /\ ApiIdle

\* build_library_path called on one name.
LibPathSpec == LibPathSpecInit /\ [][LibPathNext]_vars

SubstSpecInit ==
    CoreIdle /\ AssetIdle /\ ZipIdle /\ LibPathIdle
    /\ SubstInit /\ ResolverIdle /\ TravIdle /\ ApiIdle

\* substitute_params called on one template and parameter map.
SubstSpec == SubstSpecInit /\ [][SubstNext]_vars

ResolverSpecInit ==
    CoreIdle /\ AssetIdle /\ ZipIdle /\ LibPathIdle
    /\ SubstIdle /\ ResolverInit /\ TravIdle /\ ApiIdle

\* Concurrent resolve calls on one SimpleResolver.
ResolverSpec == ResolverSpecInit /\ [][ResolverNext]_vars

TravSpecInit ==
    CoreIdle /\ AssetIdle /\ ZipIdle /\ LibPathIdle
    /\ SubstIdle /\ ResolverIdle /\ TravInit /\ ApiIdle

\* download(resolver, config, root) polled to its end: every save future
\* resolves and the driver takes each step it can.
TravSpec == TravSpecInit /\ [][TravNext]_vars /\ WF_vars(TravNext)

ApiSpecInit ==
    CoreIdle /\ AssetIdle /\ ZipIdle /\ LibPathIdle
    /\ SubstIdle /\ ResolverIdle /\ TravIdle /\ ApiInit

\* One task of the atomic-state manager: the steps of its poll and of the
\* handle operations, interleaved.
ApiSpec == ApiSpecInit /\ [][ApiNext]_vars


\* ======================================================================
\* Properties of the task manager
\* ======================================================================

\* The latest step was the call `op` on the handle of task t, and it took
\* effect.
Called(op, t) == lastCall.op = op /\ lastCall.task = t

Live == {"Pending", "Running", "Paused"}

\* A thread that calls a method of the handle of task t gets the state lock.
Callable(t) == stage[t] # "none" /\ ~lockHeld[t] /\ ~poisoned[t]

\* C1: cancel() called on a task that is Pending, Running or Paused leaves
\* the task Cancelled, and the inner future of a Cancelled task is not being
\* polled.
C1_CancelFromAnyLiveState ==
    \A t \in Tasks :
        /\ (Callable(t) /\ state[t] \in Live)
              => ENABLED (Cancel(t) /\ state'[t] = "Cancelled")
        /\ state[t] = "Cancelled" => pc[t] # "inner"

\* C2: with a concurrency limit L at most L tasks are Running or Paused.
C2_AtMostLimitActive ==
    hasLimit =>
        Cardinality({t \in Tasks : state[t] \in {"Running", "Paused"}})
            <= limit

\* C3: a poll that observes Paused stashes the waker and returns Pending
\* with the state untouched, and no step polls the inner future, or stores a
\* result of it, while the state is Paused; the state never becomes Paused
\* while the inner future is being polled.
C3_PausedSuspends ==
    [][\A t \in Tasks :
        /\ (state[t] = "Paused" /\ pc[t] = "arm" /\ pc'[t] # "arm")
              => /\ pc'[t] = "idle"
                 /\ waker'[t]
                 /\ state'[t] = "Paused"
                 /\ stage'[t] = "task"
        /\ (state[t] = "Paused" \/ state'[t] = "Paused")
              => /\ pc[t] # "inner"
                 /\ pc'[t] # "inner"
                 /\ innerResult'[t] = innerResult[t]]_vars

\* C3 witness: a poll found the task Paused and stashed its waker (pause()
\* itself empties the waker slot).
C3_Witness ==
    \E t \in Tasks :
        /\ state[t] = "Paused" /\ waker[t]
        /\ pc[t] = "idle" /\ stage[t] = "task"

\* C4: resume() on a Paused task leaves it Running, and from there the
\* inner future is polled again unless the task is paused or cancelled
\* first: the wake-up is not lost.
C4_ResumeIsNotLost ==
    \A t \in Tasks :
        /\ []((Called("resume", t) /\ lastCall.pre = "Paused")
                 => state[t] = "Running")
        /\ (Called("resume", t) /\ lastCall.pre = "Paused")
              ~> (pc[t] = "inner" \/ state[t] \in {"Paused", "Cancelled"})

\* C4 witness: resume() has just taken a stashed waker of a Paused task and
\* woken it.
C4_Witness ==
    \E t \in Tasks :
        /\ Called("resume", t) /\ lastCall.pre = "Paused" /\ lastCall.wk
        /\ state[t] = "Running" /\ notified[t] /\ ~waker[t]

\* The lifecycle edge a change of the state of task t is, with its cause.
LifecycleEdge(t) ==
    \/ /\ state[t] = "Pending" /\ state'[t] = "Running"
       /\ pc[t] = "arm"
    \/ /\ state[t] = "Running" /\ state'[t] = "Paused"
       /\ lastCall'.op = "pause" /\ lastCall'.task = t
    \/ /\ state[t] = "Paused" /\ state'[t] = "Running"
       /\ lastCall'.op = "resume" /\ lastCall'.task = t
    \/ /\ state[t] = "Running" /\ state'[t] = "Finished"
       /\ pc[t] = "inner" /\ innerResult'[t] = "Ok"
    \/ /\ state[t] = "Running" /\ state'[t] = "Failed"
       /\ pc[t] = "inner" /\ innerResult'[t] = "Err"
    \/ /\ state[t] \in Live /\ state'[t] = "Cancelled"
       /\ lastCall'.op = "cancel" /\ lastCall'.task = t

\* C5: every change of a task's state is a lifecycle edge made by its
\* cause (so none leaves Finished, Failed or Cancelled); the stashed waker
\* is taken only by a control call that takes effect and set only by a poll
\* of the task, so a control call in a state that does not permit it
\* changes neither state nor waker.
C5_Lifecycle ==
    [][\A t \in Tasks :
        /\ state'[t] # state[t] => LifecycleEdge(t)
        /\ (waker[t] /\ ~waker'[t])
              => (lastCall'.task = t /\ state'[t] # state[t])
        /\ (~waker[t] /\ waker'[t]) => (lockHeld[t] /\ state'[t] = state[t])
      ]_vars

\* C5 witness: cancel() took a Paused task with a stashed waker to
\* Cancelled.
C5_Witness ==
    \E t \in Tasks :
        /\ Called("cancel", t) /\ lastCall.pre = "Paused" /\ lastCall.wk
        /\ state[t] = "Cancelled" /\ ~waker[t]

\* Tasks that own a permit.
holders == {t \in Tasks : holds[t]}

\* C6: with a limit, the inner future is polled only by a task that holds a
\* permit, available permits plus held permits equal the limit, and a task
\* whose future resolved holds no permit.
C6_PermitAccounting ==
    hasLimit =>
        /\ \A t \in Tasks : pc[t] = "inner" => holds[t]
        /\ permits + Cardinality(holders) = limit
        /\ \A t \in Tasks : stage[t] = "done" => ~holds[t]

\* C6 witness: with one permit, a cancelled task and a failed one resolved
\* and the permit is back.
C6_Witness ==
    /\ hasLimit /\ limit = 1 /\ permits = 1
    /\ \E t, u \in Tasks :
        /\ stage[t] = "done" /\ state[t] = "Cancelled"
        /\ stage[u] = "done" /\ state[u] = "Failed"

\* C7: when wait_all() has returned, no task is enrolled, every task
\* created is Finished, Failed or Cancelled, and all permits are back.
C7_WaitAllDrains ==
    waitAll = "returned" =>
        /\ tasks = 0
        /\ \A t \in created : state[t] \in Terminal
        /\ hasLimit => permits = limit

\* C8: a result Err is stored as Failed and Ok as Finished, nothing else is
\* Finished or Failed, a Failed task's future resolves at its next arm, and
\* a Cancelled task stays Cancelled.
C8_ResultToState ==
    /\ [](\A t \in Tasks :
            /\ innerResult[t] = "Err" <=> state[t] = "Failed"
            /\ innerResult[t] = "Ok" <=> state[t] = "Finished")
    /\ [][\A t \in Tasks :
            /\ (state[t] = "Failed" /\ pc[t] = "arm" /\ pc'[t] # "arm")
                  => (stage'[t] = "done" /\ state'[t] = "Failed")
            /\ state[t] = "Cancelled" => state'[t] = "Cancelled"]_vars

\* C8 witness: an inner future returned Err and its task resolved Failed.
C8_Witness ==
    \E t \in Tasks :
        innerResult[t] = "Err" /\ state[t] = "Failed" /\ stage[t] = "done"

\* C9: no thread asks for the state lock of a task while it holds that
\* lock for writing (the request would block forever or panic).
C9_NoSelfRelock ==
    \A t \in Tasks : stage[t] \notin {"blocked", "panicked"}


\* ======================================================================
\* Properties of the rule engine
\* ======================================================================

\* What one rule evaluates to, as the specification words it: the inverse
\* of its action when the selector misses the matched OS bits, else the
\* inverse when some features[k] differs from the caller's value at k
\* (absent = false), else the action.
EvalOf(rule, F, S) ==
    IF S \cap MatchedOs(rule.os) = {}
    THEN IF rule.action = "Allow" THEN "Disallow" ELSE "Allow"
    ELSE IF \E k \in DOMAIN rule.features :
               rule.features[k] # (k \in DOMAIN F /\ F[k])
         THEN IF rule.action = "Allow" THEN "Disallow" ELSE "Allow"
         ELSE rule.action

\* C10: Rules::is_allowed(F, S) is true exactly when no rule of the list
\* evaluates to Disallow; the empty list is allowed.
C10_AllowedIffNoDisallow ==
    verdict # "none" =>
        /\ (verdict = "allowed")
              <=> ~\E i \in 1..Len(rules) :
                      EvalOf(rules[i], features, selector) = "Disallow"
        /\ rules = <<>> => verdict = "allowed"

\* C10 witness: [{Allow, features: {has_custom_resolution: true}}] was
\* evaluated against an empty feature map and came out disallowed.
C10_Witness ==
    /\ Len(rules) = 1
    /\ rules[1].action = "Allow"
    /\ rules[1].os.name = None
    /\ DOMAIN rules[1].features = {"has_custom_resolution"}
    /\ rules[1].features["has_custom_resolution"]
    /\ DOMAIN features = {}
    /\ selector = Linux64
    /\ verdict = "disallowed"

\* The matched bits of the specification's table, read row by row: the
\* name picks the family, then the x86 arch and the ^10 version prefix
\* narrow it. A name the table has no row for is left to the code.
TableFamily(name) ==
    IF name = Some("linux") THEN {"Linux32", "Linux64"}
    ELSE IF name = Some("windows")
         THEN {"Windows32", "Windows64", "Windows10_32", "Windows10_64"}
    ELSE IF name = Some("osx")
         THEN {"OSX32", "OSX64", "MacOS32", "MacOS64"}
    ELSE {"Linux32", "Linux64", "Windows32", "Windows64", "Windows10_32",
          "Windows10_64", "OSX32", "OSX64", "MacOS32", "MacOS64"}

Bits32 == {"Linux32", "Windows32", "Windows10_32", "OSX32", "MacOS32"}
BitsV10 == {"Windows10_32", "Windows10_64", "OSX32", "OSX64"}

HasPrefix10(version) ==
    /\ version # <<>>
    /\ Len(version[1]) >= 3
    /\ version[1][1] = "^" /\ version[1][2] = "1" /\ version[1][3] = "0"

TableBits(os) ==
    LET family == TableFamily(os.name)
        byArch == IF os.name # <<>> /\ os.arch = <<"x86">>
                  THEN family \cap Bits32 ELSE family
        byVersion == IF os.name \in {<<"windows">>, <<"osx">>}
                        /\ HasPrefix10(os.version)
                     THEN byArch \cap BitsV10 ELSE byArch
    IN  byVersion

InTable(os) == os.name \in {<<>>, <<"linux">>, <<"windows">>, <<"osx">>}

\* C11: for every (os.name, os.arch, os.version) of the table the bits the
\* rule matches are the table's, and the rule evaluates to its action iff
\* the selector meets them; so {Allow, linux} is allowed iff the selector
\* intersects {Linux32, Linux64}.
C11_MatchedBitsAreTheTable ==
    (Len(rules) = 1 /\ verdict # "none" /\ DOMAIN rules[1].features = {}
     /\ InTable(rules[1].os)) =>
        /\ MatchedOs(rules[1].os) = TableBits(rules[1].os)
        /\ (verdict = "allowed") <=>
              ((rules[1].action = "Allow")
                 <=> (selector \cap TableBits(rules[1].os) # {}))
        /\ (rules[1].action = "Allow" /\ rules[1].os.name = <<"linux">>
            /\ rules[1].os.arch = <<>>) =>
              ((verdict = "allowed")
                 <=> (selector \cap {"Linux32", "Linux64"} # {}))

\* C11 witness: {Allow, os.name = linux} was evaluated against the selector
\* {Windows64, Linux32} and allowed.
C11_Witness ==
    /\ Len(rules) = 1
    /\ rules[1].action = "Allow"
    /\ rules[1].os = [name |-> <<"linux">>, arch |-> <<>>, version |-> <<>>]
    /\ selector = {"Windows64", "Linux32"}
    /\ verdict = "allowed"


\* ======================================================================
\* Properties of the file synchronisation task
\* ======================================================================

\* C12: a response whose Content-Length differs from the declared size
\* makes the task return an error, and the task has created no directory
\* and written no file.
C12_SizeGateWritesNothing ==
    [][\A s \in Sources, r \in Responses :
          (/\ SendRequest(s, r)
           /\ size[s] # <<>> /\ r.content_length # <<>>
           /\ r.content_length[1] # size[s][1])
          => /\ outcome'[s] \in Errors
             /\ fs' = fs /\ parentDir' = parentDir
             /\ fsOps'[s] = {}]_vars

\* C12 witness: a forced re-download over an existing file met the size
\* gate and failed.
C12_Witness ==
    \E s \in Sources :
        /\ validation[s] = "Force" /\ fs[s] # <<>>
        /\ outcome[s] = "SizesMismatch"
        /\ requests[s] = 1

\* C13: the bytes a successful download of a source with a declared size
\* returns, and the file written from them, have exactly that size.
C13_DownloadedLengthIsSize ==
    \A s \in Sources :
        size[s] # <<>> =>
            /\ (active = s /\ syncPc = "write_to_file")
                  => buf[1].len = size[s][1]
            /\ (outcome[s] = "Ok" /\ requests[s] > 0)
                  => (fs[s] # <<>> /\ fs[s][1].len = size[s][1])

\* Validity as the specification defines it.
JudgedValid(s) ==
    \/ validation[s] = "NoneAtAll"
    \/ /\ validation[s] = "Usual"
       /\ fs[s] # <<>>
       /\ (size[s] = <<>> \/ fs[s][1].len = size[s][1])

\* C14: is_valid answers as the three validation modes prescribe; a task
\* sends a request iff its source was judged not valid, and a task whose
\* source was judged valid never writes.
C14_RequestIffNotValid ==
    /\ [](\A s \in Sources :
            /\ isValid[s] = "valid" => (requests[s] = 0 /\ fsOps[s] = {})
            /\ requests[s] > 0 => isValid[s] = "invalid"
            /\ (isValid[s] = "invalid" /\ outcome[s] # "none")
                  => requests[s] = 1)
    /\ [][\A s \in Sources :
            (isValid[s] = "none" /\ isValid'[s] # "none")
               => ((isValid'[s] = "valid") <=> JudgedValid(s))]_vars

\* C14 witness: under Validation::Usual one source with a file of the
\* declared size was read without a request, another whose file had a
\* different length was downloaded.
C14_Witness ==
    \E s, u \in Sources :
        /\ validation[s] = "Usual" /\ validation[u] = "Usual"
        /\ size[s] # <<>> /\ size[u] # <<>>
        /\ isValid[s] = "valid" /\ requests[s] = 0 /\ outcome[s] = "Ok"
        /\ isValid[u] = "invalid" /\ requests[u] = 1 /\ outcome[u] = "Ok"
        /\ pass = 1

\* C15: after a first traversal in which every task returned Ok under
\* Validation::Usual, the second traversal sends no request and changes
\* no file.
C15_SecondTraversalIsIdle ==
    [][(/\ pass = 2 /\ firstPassOk
        /\ \A s \in Sources : validation[s] = "Usual")
       => (requests' = requests /\ fs' = fs)]_vars


\* ======================================================================
\* Properties of the directory placer
\* ======================================================================

\* The file-name text `tail` appended to the last component of a name.
WithTail(comps, tail) ==
    [comps EXCEPT ![Len(comps)] = @ \o tail]

\* base/<middle>/<last><tail>
Under(base, middle, last, tail) ==
    [abs |-> base.abs, comps |-> base.comps \o middle \o WithTail(last, tail)]

\* The placement table of the specification for Remote sources.
TablePath(d, s) ==
    LET n == s.name.comps
        k == s.kind
        jvm == IF k.tag \in {"JvmInfo", "JvmFile"}
               THEN k.jvm_mojang_name.comps \o k.platform.comps
                       \o k.jvm_mojang_name.comps
               ELSE <<>>
    IN  CASE k.tag = "VersionManifest" -> Under(d.root, <<>>, n, <<".", "json">>)
          [] k.tag = "AssetIndex" ->
                Under(d.assets, <<<<"indexes">>>>, n, <<".", "json">>)
          [] k.tag = "Asset" ->
                Under(d.assets,
                      IF k.legacy THEN <<<<"legacy">>>> ELSE <<<<"objects">>>>,
                      n, <<>>)
          [] k.tag = "Library" -> Under(d.libraries, <<>>, n, <<>>)
          [] k.tag = "ClientJar" -> Under(d.versions, n, n, <<".", "jar">>)
          [] k.tag = "ServerJar" ->
                Under(d.versions, n, n, <<"_server", ".", "jar">>)
          [] k.tag = "VersionInfo" -> Under(d.versions, n, n, <<".", "json">>)
          [] k.tag = "JvmInfo" ->
                Under(d.runtime, jvm, n, <<"_info", ".", "json">>)
          [] k.tag = "JvmFile" -> Under(d.runtime, jvm, n, <<>>)

EntryOf(s) ==
    IF s.index < Len(s.zipped.archive) THEN s.zipped.archive[s.index + 1]
    ELSE [abs |-> FALSE, comps |-> <<<<"unnamed", ToString(s.index)>>>>]

\* C17: an entry e of a natives archive with classifier c is placed at
\* versions/<c>/natives/<e>, wherever the archive was placed.
C17_NativesPlacement ==
    (/\ src.tag = "Archive" /\ located.tag = "path"
     /\ ~EntryOf(src).abs)
    => located.path =
          [abs |-> dirs.versions.abs,
           comps |-> dirs.versions.comps \o src.kind.classifier.comps
                        \o <<<<"natives">>>> \o EntryOf(src).comps]

\* C18: Dirs::locate returns for every source; it never panics.
C18_LocateIsTotal == located.tag # "panic"

\* The base directory the placement table assigns to a source.
BaseOf(d, s) ==
    IF s.tag = "Archive" THEN d.versions
    ELSE CASE s.kind.tag = "VersionManifest" -> d.root
           [] s.kind.tag \in {"AssetIndex", "Asset"} -> d.assets
           [] s.kind.tag = "Library" -> d.libraries
           [] s.kind.tag \in {"ClientJar", "ServerJar", "VersionInfo"} ->
                 d.versions
           [] s.kind.tag \in {"JvmInfo", "JvmFile"} -> d.runtime

\* The components of a path with every ".." resolved against the
\* component before it.
RECURSIVE Resolved(_, _)
Resolved(comps, acc) ==
    IF comps = <<>> THEN acc
    ELSE IF Head(comps) = <<"..">> /\ acc # <<>>
               /\ acc[Len(acc)] # <<"..">>
         THEN Resolved(Tail(comps), SubSeq(acc, 1, Len(acc) - 1))
         ELSE Resolved(Tail(comps), Append(acc, Head(comps)))

Inside(path, base) ==
    LET p == Resolved(path.comps, <<>>)
        b == Resolved(base.comps, <<>>)
    IN  /\ path.abs = base.abs
        /\ Len(p) >= Len(b)
        /\ SubSeq(p, 1, Len(b)) = b

\* C19: the path returned for a source lies inside the base directory the
\* table assigns to its kind, whatever its name or entry name.
C19_PathInsideBase ==
    located.tag = "path" => Inside(located.path, BaseOf(dirs, src))


\* ======================================================================
\* Properties of the provided sources
\* ======================================================================

\* Number of the provided sources that satisfy P.
CountOf(P(_)) ==
    Cardinality({j \in 1..Len(provided[1]) : P(provided[1][j])})

\* The library's rules allow it under the configuration, as the rule
\* engine is specified.
LibraryAllowed(lib) ==
    ~\E j \in 1..Len(lib.rules) :
        EvalOf(lib.rules[j], features, selector) = "Disallow"

\* C20: provides yields exactly one ClientJar and one AssetIndex, a
\* ServerJar iff downloads.server is present, for each allowed library a
\* Library source iff it has an artifact, and nothing for a library whose
\* rules are not allowed.
C20_ProvidedSources ==
    provided # <<>> =>
        LET IsClient(x) == x.kind = "ClientJar"
            IsIndex(x) == x.kind = "AssetIndex"
            IsServer(x) == x.kind = "ServerJar"
        IN  /\ CountOf(IsClient) = 1
            /\ CountOf(IsIndex) = 1
            /\ CountOf(IsServer) = IF versionInfo.server THEN 1 ELSE 0
            /\ \A i \in 1..Len(versionInfo.libraries) :
                  LET lib == versionInfo.libraries[i]
                      IsLib(x) == x.kind = "Library" /\ x.of = i
                      IsNat(x) == x.kind = "ZippedNatives" /\ x.of = i
                  IN  /\ CountOf(IsLib) =
                            IF LibraryAllowed(lib) /\ lib.artifact
                            THEN 1 ELSE 0
                      /\ ~LibraryAllowed(lib) => CountOf(IsNat) = 0
            /\ \A j \in 1..Len(provided[1]) :
                  provided[1][j].kind \in {"ClientJar", "AssetIndex",
                      "ServerJar", "Library", "ZippedNatives"}

\* C20 witness: of two libraries with artifact and linux natives, the one
\* allowed on linux gave a Library and a ZippedNatives source and the one
\* whose rule asks for a custom resolution gave nothing.
C20_Witness ==
    /\ provided # <<>>
    /\ Len(versionInfo.libraries) = 2
    /\ selector = {"Linux64"} /\ DOMAIN features = {}
    /\ \A i \in 1..2 : /\ versionInfo.libraries[i].artifact
                       /\ "linux" \in DOMAIN versionInfo.libraries[i].natives
    /\ LibraryAllowed(versionInfo.libraries[1])
    /\ ~LibraryAllowed(versionInfo.libraries[2])
    /\ \E j \in 1..Len(provided[1]) :
          provided[1][j].kind = "ZippedNatives" /\ provided[1][j].of = 1
    /\ \A j \in 1..Len(provided[1]) : provided[1][j].of # 2

\* ====================================================================
\* Properties of the natives a version document provides
\* ====================================================================

\* The ZippedNatives sources of library i that carry the resource keyed by
\* classifier c.
NativesOf(i, c) ==
    {j \in 1..Len(provided[1]) :
        /\ provided[1][j].kind = "ZippedNatives"
        /\ provided[1][j].of = i
        /\ provided[1][j].resource = c}

\* Classifier c is what natives[os_name] of the library resolves to for a
\* variant whose flag the selector has, and is a key of resources.extra.
Justified(lib, c) ==
    \E v \in DOMAIN variants :
        /\ Intersects(selector, variants[v].flag)
        /\ variants[v].os_name \in DOMAIN lib.natives
        /\ c = SubstituteArch(lib.natives[variants[v].os_name],
                              variants[v].arch)
        /\ c \in lib.extra

\* C21: provides emits at most one ZippedNatives source per (library,
\* resolved classifier), and a ZippedNatives source only for an OS with a
\* bit in os_selector whose resolved classifier is a key of
\* library.resources.extra.
C21_NativesOncePerClassifier ==
    provided # <<>> =>
        \A i \in 1..Len(versionInfo.libraries) :
            LET lib == versionInfo.libraries[i]
            IN  /\ \A c \in lib.extra : Cardinality(NativesOf(i, c)) <= 1
                /\ \A j \in 1..Len(provided[1]) :
                      (provided[1][j].kind = "ZippedNatives"
                       /\ provided[1][j].of = i)
                          => Justified(lib, provided[1][j].resource)

\* ====================================================================
\* Properties of the sources an asset index provides
\* ====================================================================

\* The URL written <origin>/<rel>: the path of the origin, its trailing
\* slash aside, followed by the segments of rel.
UnderOrigin(origin, rel) ==
    [origin EXCEPT !.segs =
        (IF @[Len(@)] = "" THEN SubSeq(@, 1, Len(@) - 1) ELSE @) \o rel]

\* C22: AssetIndex::provides yields exactly one Remote source per entry of
\* objects, of kind Asset{legacy = map_to_resources}, with size and hash of
\* the entry, named by the logical path when map_to_resources and by
\* <hh>/<hash> otherwise, with URL <origin>/<hh>/<hash>.
C22_AssetSources ==
    /\ \A p \in DOMAIN assetIndex.objects :
          Cardinality({j \in 1..Len(assetOut) : assetOut[j].of = p})
              = IF p \in assetSeen THEN 1 ELSE 0
    /\ assetPc = "exhausted" =>
          Len(assetOut) = Cardinality(DOMAIN assetIndex.objects)
    /\ \A j \in 1..Len(assetOut) :
          LET s == assetOut[j]
              entry == assetIndex.objects[s.of]
              hh == SubSeq(entry.hash, 1, 2)
          IN  /\ s.tag = "Remote"
              /\ s.kind = [tag |-> "Asset",
                           legacy |-> assetIndex.map_to_resources]
              /\ s.size = Some(entry.size)
              /\ s.hash = Some(entry.hash)
              /\ s.name = IF assetIndex.map_to_resources THEN <<s.of>>
                          ELSE <<hh, entry.hash>>
              /\ s.url = UnderOrigin(assetConfig.origin, <<hh, entry.hash>>)

\* ====================================================================
\* Properties of the sources a natives archive provides
\* ====================================================================

\* The name starts with some string of exclude.
HasExcludedPrefix(name) ==
    \E k \in 1..Len(zipped.exclude), n \in 0..Len(name) :
        SubSeq(name, 1, n) = zipped.exclude[k]

\* The entries of the first n archive indices that are to be extracted.
Extracted(n) ==
    SelectSeq([i \in 1..n |-> [name |-> zipped.archive[i], index |-> i - 1]],
              LAMBDA e : ~HasExcludedPrefix(e.name))

\* C23: ZippedNatives::provides yields, in archive index order, exactly
\* one Archive source (kind Natives with the archive's classifier, bearing
\* the entry's name) per entry whose name starts with no exclude string,
\* and none for an entry whose name starts with one.
C23_ArchiveSources ==
    /\ Len(zipOut) = Len(Extracted(zipIdx))
    /\ \A j \in 1..Len(zipOut) :
          /\ zipOut[j].tag = "Archive"
          /\ zipOut[j].entry = Extracted(zipIdx)[j]
          /\ zipOut[j].kind = [tag |-> "Natives",
                               classifier |-> zipped.classifier]
    /\ zipPc = "exhausted" => zipIdx = Len(zipped.archive)

\* C23 witness: an exhausted iterator over three entries of which the
\* exclude list ["b", "M/"] removed the middle one, by its second string.
C23_Witness ==
    /\ zipPc = "exhausted"
    /\ Len(zipped.archive) = 3
    /\ Len(zipped.exclude) = 2
    /\ Len(zipOut) = 2
    /\ zipOut[1].entry.index = 0
    /\ zipOut[2].entry.index = 2
    /\ StartsWith(zipped.archive[2], zipped.exclude[2])

\* ====================================================================
\* Properties of build_library_path
\* ====================================================================

\* Positions of the first two ':' of the name, if it has two.
Colons(name) == {k \in 1..Len(name) : name[k] = ":"}
FirstColon(name) == CHOOSE k \in Colons(name) : \A j \in Colons(name) : k <= j
SecondColon(name) ==
    CHOOSE k \in Colons(name) \ {FirstColon(name)} :
        \A j \in Colons(name) \ {FirstColon(name)} : k <= j

\* The text with every '.' turned into the path separator.
DotsAsSeparators(text) ==
    [k \in 1..Len(text) |-> IF text[k] = "." THEN "/" ELSE text[k]]

\* <group>/<artifact>/<version>/<artifact>-<version>[-<classifier>].jar
MavenPath(name, classifier) ==
    LET group == SubSeq(name, 1, FirstColon(name) - 1)
        artifact == SubSeq(name, FirstColon(name) + 1, SecondColon(name) - 1)
        version == SubSeq(name, SecondColon(name) + 1, Len(name))
    IN  DotsAsSeparators(group) \o <<"/">> \o artifact \o <<"/">> \o version
           \o <<"/">> \o artifact \o <<"-">> \o version
           \o (IF classifier = None THEN <<>> ELSE <<"-">> \o classifier[1])
           \o <<".", "j", "a", "r">>

\* The components of the path a text denotes (an empty component, from a
\* leading, doubled or trailing separator, is none).
RECURSIVE ComponentsOf(_, _)
ComponentsOf(text, cur) ==
    IF text = <<>> THEN (IF cur = <<>> THEN <<>> ELSE <<cur>>)
    ELSE IF Head(text) = "/"
         THEN (IF cur = <<>> THEN <<>> ELSE <<cur>>)
                  \o ComponentsOf(Tail(text), <<>>)
         ELSE ComponentsOf(Tail(text), Append(cur, Head(text)))

\* The result has the components of the claimed text, and is absolute
\* only if the claimed text is.
SamePath(result, claimed) ==
    /\ ComponentsOf(result, <<>>) = ComponentsOf(claimed, <<>>)
    /\ (result # <<>> /\ result[1] = "/")
          => (claimed # <<>> /\ claimed[1] = "/")

\* C24: build_library_path gives the Maven layout path when the name has
\* group, artifact and version, and <hash>.jar or <name>-<hash>.jar, the
\* classifier ignored, when it has fewer than three parts.
C24_LibraryPath ==
    libPath # None =>
        IF Cardinality(Colons(libName)) >= 2
        THEN SamePath(libPath[1], MavenPath(libName, libClassifier))
        ELSE libPath[1] =
                (IF libName = <<>> THEN <<>> ELSE libName \o <<"-">>)
                    \o libHash \o <<".", "j", "a", "r">>

\* ====================================================================
\* Properties of substitute_params
\* ====================================================================

\* Smallest element of a non-empty set of numbers.
Least(S) == CHOOSE k \in S : \A j \in S : k <= j

\* The template read left to right: the text up to the first "${", then
\* that placeholder (up to the next "}") replaced by its value if its key
\* is in P with a value other than the placeholder's own text and kept
\* otherwise, then the rest read the same way; a "${" that no "}"
\* follows, and all after it, is kept.
RECURSIVE Replaced(_, _)
Replaced(t, P) ==
    LET opens == {i \in 1..(Len(t) - 1) : t[i] = "$" /\ t[i + 1] = "{"}
        o == Least(opens)
        closes == {j \in (o + 2)..Len(t) : t[j] = "}"}
        c == Least(closes)
        key == SubSeq(t, o + 2, c - 1)
        placeholder == SubSeq(t, o, c)
    IN  IF opens = {} THEN t
        ELSE IF closes = {} THEN t
        ELSE SubSeq(t, 1, o - 1)
                \o (IF key \in DOMAIN P /\ P[key] # placeholder
                    THEN P[key] ELSE placeholder)
                \o Replaced(SubSeq(t, c + 1, Len(t)), P)

\* C25: substitute_params(t, P) is t read left to right with every
\* terminated placeholder whose key is in P with a value other than its
\* own text replaced by the value, and every other placeholder, an
\* unterminated one and the text around them kept in order; values are not
\* read again.
C25_SubstituteParams ==
    substituted # None =>
        substituted[1].text = Replaced(substTemplate, substParams)

\* C25 witness: "${k}${}" with k |-> "v" and the empty key mapped to
\* "${}" came back as "v${}": the first placeholder replaced, the second,
\* whose value is its own text, kept.
C25_Witness ==
    /\ substituted # None
    /\ substTemplate = <<"$", "{", "k", "}", "$", "{", "}">>
    /\ DOMAIN substParams = {<<"k">>, <<>>}
    /\ substParams[<<"k">>] = <<"v">>
    /\ substParams[<<>>] = <<"$", "{", "}">>
    /\ substituted[1] = [owned |-> TRUE, text |-> <<"v", "$", "{", "}">>]

\* ====================================================================
\* Properties of the example resolvers
\* ====================================================================

\* Resolve calls whose remote fetch is in flight.
Fetching == {t \in Resolves : resPc[t] = "fetch"}

\* C26: in every Resolver implementation the permit acquired from the
\* limiter is held until the resolution of the source has completed, so
\* the remote fetches in flight never exceed the limiter's permits.
C26_PermitHeldWhileResolving ==
    /\ \A t \in Fetching : resHolds[t]
    /\ Cardinality(Fetching) <= resLimit

\* ====================================================================
\* Termination of Manager::wait_all
\* ====================================================================

\* C27: under fair scheduling, inner futures that return Ready when polled
\* after their wake-ups and paused tasks that are resumed or cancelled (the
\* callers pausing only finitely often), wait_all() once called completes,
\* for any concurrency limit >= 1; and it has not completed while a task is
\* Pending, Running or Paused.
C27_WaitAllCompletes ==
    /\ ((hasLimit => limit >= 1)
           /\ \A t \in Tasks : <>[]~Called("pause", t))
          => ((waitAll = "waiting") ~> (waitAll = "returned"))
    /\ [](waitAll = "returned" =>
             \A t \in created :
                 state[t] \notin {"Pending", "Running", "Paused"})

\* ----------------------------------------------------------------------
\* Properties of the traversal driver
\* ----------------------------------------------------------------------

\* The sources provided by the artifact of source n.
ChildrenOf(n) == {m \in 1..Len(travNodes) : travNodes[m].parent = n}

\* The number of sources on the chain from the root down to source n.
RECURSIVE DepthOf(_)
DepthOf(n) ==
    IF travNodes[n].parent = 0 THEN 1 ELSE 1 + DepthOf(travNodes[n].parent)

\* Plain files: every Remote source that is not a document or an archive
\* of natives, and every Archive source.
IsLeafSource(source) ==
    \/ source.tag = "Archive"
    \/ source.kind \notin {"VersionManifest", "VersionInfo", "AssetIndex",
                           "ZippedNatives"}

\* The longest chain of sources, by kind (AssetIndex and Asset make one
\* of the same length), and its length.
LongestChainKinds ==
    <<"VersionManifest", "VersionInfo", "ZippedNatives", "Archive">>

LongestChain == Len(LongestChainKinds)

TraversalShape ==
    \A n \in 1..Len(travNodes) :
        /\ IsLeafSource(travNodes[n].source) => ChildrenOf(n) = {}
        /\ travNodes[n].status \in {"err", "dropped"} => ChildrenOf(n) = {}
        /\ DepthOf(n) <= LongestChain
        /\ travPc = "done" => travNodes[n].status \in {"expanded", "dropped"}

\* C28: plain files and archive entries provide no child sources, so no
\* chain of child sources is longer than four; a source whose resolution
\* failed has no children, and when download returns every source met,
\* the siblings of a failed one included, has been resolved and popped;
\* and the traversal always comes to an end.
C28_TraversalTerminates ==
    /\ []TraversalShape
    /\ <>(travPc \in {"done", "aborted"})

\* C28 witness: download has returned after a chain of four sources down
\* to an archive entry, and a sibling of a source that failed was expanded
\* to its children.
C28_Witness ==
    /\ travPc = "done"
    /\ \E n \in 1..Len(travNodes) :
          /\ travNodes[n].source.tag = "Archive"
          /\ DepthOf(n) = LongestChain
    /\ \E n, m \in 1..Len(travNodes) :
          /\ n # m
          /\ travNodes[n].parent = travNodes[m].parent
          /\ travNodes[n].status = "dropped"
          /\ travNodes[m].status = "expanded"
          /\ ChildrenOf(m) # {}

\* ----------------------------------------------------------------------
\* Properties of the atomic-state task manager
\* ----------------------------------------------------------------------

\* The task is Running, its last poll returned Pending, and nothing is
\* left that would have it polled: the executor was not notified, the
\* inner future keeps no waker, and no handle operation is under way.
LostWakeup ==
    /\ apiState = "Running"
    /\ apiPollPc = "idle" /\ apiLastPoll = "Pending"
    /\ ~apiNotified
    /\ ~apiRegistered
    /\ \A c \in Callers : apiOpPc[c] = "idle"

\* C29: no interleaving of pause() and resume() with a poll in progress
\* leaves the task Running, its last poll Pending, and no wake-up
\* delivered or pending.
C29_NoLostWakeup == ~LostWakeup

\* C30: once cancel() has stored Cancelled the state never becomes
\* Finished and result() returns no value; once a poll has stored Finished
\* no handle operation stores another state; the inner future is not
\* polled again after it returned Ready.
C30_FinalStatesAbsorbing ==
    /\ apiHist.cancelStored => apiState # "Finished"
    /\ ~apiHist.gotAfterCancel
    /\ ~apiHist.overwritten
    /\ ~apiHist.repolled

====
